---- MODULE Spec2Model ----
(***************************************************************************)
(* A model of the drone swarm controller: the grid (environment.py), the   *)
(* event manager (event_system.py), the primitive actions, the detector    *)
(* and the drone (drone.py), the behaviors (behavior.py), the commands     *)
(* (command_processor.py, llm_controller.py) and the main loop (main.py).  *)
(*                                                                         *)
(* The first drone is held in variables of its own; the entities in others *)
(* are static, and the drones in fleet are the further drones of the main  *)
(* loop and of the commands.  Python objects are records; an object's      *)
(* identity is its id field.                                               *)
(***************************************************************************)
EXTENDS Integers, Sequences, FiniteSets, TLC

VARIABLES
    position,          \* Drone.position (Entity.position)
    current_action,    \* Drone.current_action
    action_queue,      \* Drone.action_queue
    current_behavior,  \* Drone.current_behavior
    detector,          \* Drone.detector
    entities,          \* GridEnvironment.entities: ids in registration order
    others,            \* the registered entities other than the drone, by id
    callbacks,         \* EventManager.callbacks: event type -> handlers
    next_id,           \* the identity the next constructed object gets
    events,            \* observation: the events fired by the last operation
    calls,             \* observation: the calls made by the last operation
    op,                \* observation: the last operation and what it replaced
    history,           \* observation: the execute calls, the subscriptions or
                       \* the steps of the main loop since the last reset, or
                       \* the text of the last command
    ticks,             \* observation: Drone.update calls since set_behavior
    start,             \* observation: the position when set_behavior was called
    completions,       \* observation: nested MoveTo behaviors that completed
    returned,          \* observation: what the last execute, behavior update
                       \* or process_goal returned
    loop,              \* run_simulation: where the main loop is, and the goal
                       \* it is processing
    fleet              \* the drones created after the first: fleet[k] has
                       \* drone_id k + 1

vars == <<position, current_action, action_queue, current_behavior, detector,
          entities, others, callbacks, next_id, events, calls, op, history,
          ticks, start, completions, returned, loop, fleet>>

---------------------------------------------------------------------------
(* Bounds of the model.                                                    *)

GridWidth == 9
GridHeight == 8
MaxTicks == 12
MaxPatrolTicks == 26
MaxLoops == 2
MaxRange == 2
MaxDetectorTicks == 1
MaxObjects == 5
MaxDroneTicks == 2
MaxQueue == 4
MaxQueueTicks == 6
WaitTicks == 2
MaxHandlers == 2
MaxSubscriptions == 3
MaxCadence == 2

Abs(n) == IF n < 0 THEN -n ELSE n

Min(m, n) == IF m < n THEN m ELSE n

Max(m, n) == IF m > n THEN m ELSE n

---------------------------------------------------------------------------
(* environment.py                                                          *)

Position(x, y) == [x |-> x, y |-> y]

Add(p, q) == Position(p.x + q.x, p.y + q.y)

width == GridWidth

\* A grid whose rows are not bounded.
is_valid_positionXOnly(p) == 0 <= p.x /\ p.x < GridWidth

height == GridHeight

is_valid_position(p) ==
    /\ 0 <= p.x /\ p.x < width
    /\ 0 <= p.y /\ p.y < height

GridPositions == {Position(x, y) : x \in 0..(width - 1), y \in 0..(height - 1)}

\* The drone's identity; the other entities' ids are 1, 2, ...
SelfId == 0

\* The entity object behind a registered id, the drone's position being the
\* current one.
EntityOf(id, d) ==
    IF id = SelfId
    THEN [id |-> SelfId, entity_type |-> "drone", position |-> d.position]
    ELSE [id |-> id, entity_type |-> others[id].entity_type,
          position |-> others[id].position]

\* A lookup that leaves the asking drone out.
get_entities_at_others(p, d) ==
    SelectSeq(d.registry, LAMBDA id : id # SelfId /\ EntityOf(id, d).position = p)

\* GridEnvironment.add_entity
add_entity(id, d) == [d EXCEPT !.registry = Append(@, id)]

\* list.remove: the first occurrence goes
RECURSIVE Removed(_, _)
Removed(seq, id) ==
    IF seq = <<>> THEN <<>>
    ELSE IF Head(seq) = id THEN Tail(seq)
    ELSE <<Head(seq)>> \o Removed(Tail(seq), id)

\* GridEnvironment.remove_entity
remove_entity(id, d) == [d EXCEPT !.registry = Removed(@, id)]

get_entities_at(p, d) ==
    SelectSeq(d.registry, LAMBDA id : EntityOf(id, d).position = p)

---------------------------------------------------------------------------
(* drone.py: the actions as constructed, and the drone's queue             *)

NoAction == [kind |-> "none"]

MoveAction(direction) ==
    [kind |-> "move", id |-> 0, completed |-> FALSE, direction |-> direction]

WaitAction(n) ==
    [kind |-> "wait", id |-> 0, completed |-> FALSE, ticks |-> n, current_tick |-> 0]

ScanAction(r) ==
    [kind |-> "scan", id |-> 0, completed |-> FALSE, range |-> r]

Drone_add_action(d, a) ==
    IF d.current_action.kind = "none"
    THEN [d EXCEPT !.current_action = a]
    ELSE [d EXCEPT !.action_queue = Append(@, a)]

\* A clear that empties the queue and leaves the current action.
ClearQueueOnly(d) == [d EXCEPT !.action_queue = <<>>]

Drone_clear_actions(d) ==
    [d EXCEPT !.action_queue = <<>>, !.current_action = NoAction]

---------------------------------------------------------------------------
(* event_system.py                                                         *)

Event(type, pos, direction, ents) ==
    [type |-> type, position |-> pos, direction |-> direction, entities |-> ents]

NoPosition == Position(-1, -1)

Call(name, kind, id) == [op |-> name, kind |-> kind, id |-> id]

---------------------------------------------------------------------------
(* behavior.py and drone.py: the behaviors as constructed, their start and *)
(* stop, and the drone's current behavior                                  *)

NoBehavior == [kind |-> "none"]

\* An exception of class e leaves the call in progress; "-" is no exception.
Raise(d, e) == [d EXCEPT !.raised = e]

\* What a behavior's update hands back: the behavior object, the drone, and
\* the value update returns.
Updated(b, d, ret) == [behavior |-> b, drone |-> d, ret |-> ret]

MoveToBehavior(target) ==
    [kind |-> "move_to", id |-> 0, completed |-> FALSE, target_position |-> target,
     path |-> <<>>, current_action |-> NoAction]

\* A planner that resolves y before x.
RECURSIVE PlanFromYFirst(_, _)
PlanFromYFirst(current, target) ==
    IF current.x # target.x \/ current.y # target.y
    THEN IF current.y < target.y
         THEN <<MoveAction("down")>> \o PlanFromYFirst(Position(current.x, current.y + 1), target)
         ELSE IF current.y > target.y
         THEN <<MoveAction("up")>> \o PlanFromYFirst(Position(current.x, current.y - 1), target)
         ELSE IF current.x < target.x
         THEN <<MoveAction("right")>> \o PlanFromYFirst(Position(current.x + 1, current.y), target)
         ELSE <<MoveAction("left")>> \o PlanFromYFirst(Position(current.x - 1, current.y), target)
    ELSE <<>>

RECURSIVE PlanFrom(_, _)
PlanFrom(current, target) ==
    IF current.x # target.x \/ current.y # target.y
    THEN IF current.x < target.x
         THEN <<MoveAction("right")>> \o PlanFrom(Position(current.x + 1, current.y), target)
         ELSE IF current.x > target.x
         THEN <<MoveAction("left")>> \o PlanFrom(Position(current.x - 1, current.y), target)
         ELSE IF current.y < target.y
         THEN <<MoveAction("down")>> \o PlanFrom(Position(current.x, current.y + 1), target)
         ELSE <<MoveAction("up")>> \o PlanFrom(Position(current.x, current.y - 1), target)
    ELSE <<>>

MoveToBehavior_plan_path(b, d) ==
    [b EXCEPT !.path = PlanFrom(d.position, b.target_position)]

MoveToBehavior_start(b, d) == MoveToBehavior_plan_path(b, d)

ExploreBehavior(steps) ==
    [kind |-> "explore", id |-> 0, completed |-> FALSE, steps |-> steps,
     current_step |-> 0, current_action |-> NoAction]

\* Behavior.start: only MoveTo overrides it.  The call is logged.
Behavior_start(b, d) ==
    [behavior |-> IF b.kind = "move_to" THEN MoveToBehavior_start(b, d) ELSE b,
     drone |-> [d EXCEPT !.calls = Append(@, Call("start", b.kind, b.id))]]

\* Behavior.stop: no class overrides it.  The call is logged.
Behavior_stop(b, d) == [d EXCEPT !.calls = Append(@, Call("stop", b.kind, b.id))]

Drone_set_behavior(d, b) ==
    LET c == [Drone_clear_actions(d) EXCEPT !.current_behavior = b] IN
    IF b.kind # "none"
    THEN LET s == Behavior_start(b, c) IN
         [s.drone EXCEPT !.current_behavior = s.behavior]
    ELSE c

Drone_clear_behavior(d) ==
    IF d.current_behavior.kind # "none"
    THEN [Behavior_stop(d.current_behavior, d) EXCEPT !.current_behavior = NoBehavior]
    ELSE [d EXCEPT !.current_behavior = NoBehavior]

---------------------------------------------------------------------------
(* event_system.py: the handlers                                           *)

\* The handlers.  A handler is known by a number; the handlers 1, 2, ...
\* record their invocation and change nothing, and so does every handler
\* before it does what is particular to it:
\* ObserveAction reads the completed flag of the action that fired the event;
ObserveAction == 11

\* ReplaceQueue calls clear_actions() and add_action(Wait(1)), add_action(Scan(0))
\* of the drone of the event;
ReplaceQueue == 12

\* RemoveEntity calls remove_entity of the first other entity;
RemoveEntity == 13

\* AddEntity calls add_entity of the second other entity.
AddEntity == 14

\* handle_target_detected of main.py is the handlers from HandleTargetDetected
\* on, one for each way random.choice can fall for its three Moves: the
\* handler HandleTargetDetected + 16 * i + 4 * j + k draws the i-th, the
\* j-th and the k-th of up, down, left, right.
HandleTargetDetected == 200

Drawn(n) ==
    CASE n % 4 = 0 -> "up"
      [] n % 4 = 1 -> "down"
      [] n % 4 = 2 -> "left"
      [] OTHER -> "right"

\* The identities of the Wait, of the first Move and of the Explore that
\* handle_target_detected constructs.
PauseId == 111

AwayId == 112

ResumeId == 115

\* main.py, lines 84-95
handle_target_detected(h, d) ==
    LET n == h - HandleTargetDetected
        paused == Drone_add_action(Drone_clear_behavior(d),
                                   [WaitAction(5) EXCEPT !.id = PauseId])
        first == Drone_add_action(paused,
                                  [MoveAction(Drawn(n \div 16)) EXCEPT !.id = AwayId])
        second == Drone_add_action(first,
                                   [MoveAction(Drawn(n \div 4)) EXCEPT !.id = AwayId + 1])
        third == Drone_add_action(second,
                                  [MoveAction(Drawn(n)) EXCEPT !.id = AwayId + 2]) IN
    Drone_set_behavior(third, [ExploreBehavior(-1) EXCEPT !.id = ResumeId])

\* The identities of the two actions ReplaceQueue constructs.
FirstReplacement == 101

SecondReplacement == 102

Handle(h, ev, d) ==
    LET called == [d EXCEPT !.calls = Append(@, Call("handler", ev.type, h))] IN
    CASE h = ObserveAction /\ d.executing.kind # "none" ->
           [called EXCEPT !.calls =
               Append(@, Call("observed",
                              IF d.executing.completed THEN "completed" ELSE "pending",
                              d.executing.id))]
      [] h = ReplaceQueue ->
           Drone_add_action(
               Drone_add_action(Drone_clear_actions(called),
                                [WaitAction(1) EXCEPT !.id = FirstReplacement]),
               [ScanAction(0) EXCEPT !.id = SecondReplacement])
      [] h = RemoveEntity -> remove_entity(1, called)
      [] h = AddEntity -> add_entity(2, called)
      [] h >= HandleTargetDetected -> handle_target_detected(h, called)
      [] OTHER -> called

\* for callback in self.callbacks[event_type]: callback(event)
RECURSIVE Dispatch(_, _, _)
Dispatch(hs, ev, d) ==
    IF hs = <<>> THEN d ELSE Dispatch(Tail(hs), ev, Handle(Head(hs), ev, d))

\* EventManager.trigger: every callback of the type, in list order.
trigger(ev, d) ==
    LET fired == [d EXCEPT !.events = Append(@, ev)] IN
    IF ev.type \in DOMAIN callbacks
    THEN Dispatch(callbacks[ev.type], ev, fired)
    ELSE fired

\* A subscription that puts the new handler first.
OnFirst(type, handler) ==
    IF type \in DOMAIN callbacks
    THEN [callbacks EXCEPT ![type] = <<handler>> \o @]
    ELSE (type :> <<handler>>) @@ callbacks

\* EventManager.on / register
on(type, handler) ==
    IF type \in DOMAIN callbacks
    THEN [callbacks EXCEPT ![type] = Append(@, handler)]
    ELSE (type :> <<handler>>) @@ callbacks

\* EventManager.clear_all
clear_all == [t \in {} |-> <<>>]

---------------------------------------------------------------------------
(* drone.py: the primitive actions                                         *)

DirectionNames == {"up", "down", "left", "right", "stay"}

DIRECTIONS ==
    [n \in DirectionNames |->
        CASE n = "up" -> Position(0, -1)
          [] n = "down" -> Position(0, 1)
          [] n = "left" -> Position(-1, 0)
          [] n = "right" -> Position(1, 0)
          [] n = "stay" -> Position(0, 0)]

Result(a, d, done) == [action |-> a, drone |-> d, done |-> done]

\* Action.reset, and WaitAction's override of it
Action_reset(a) ==
    IF a.kind = "wait"
    THEN [a EXCEPT !.completed = FALSE, !.current_tick = 0]
    ELSE [a EXCEPT !.completed = FALSE]

\* A blocked Move that stays pending and is tried again.
MoveAction_executeRetry(a, d) ==
    IF a.completed THEN Result(a, d, TRUE)
    ELSE IF a.direction \notin DOMAIN DIRECTIONS
    THEN Result([a EXCEPT !.completed = TRUE], d, TRUE)
    ELSE LET new_position == Add(d.position, DIRECTIONS[a.direction]) IN
         IF is_valid_position(new_position)
         THEN Result([a EXCEPT !.completed = TRUE],
                     trigger(Event("drone_moved", new_position, "-", <<>>),
                             [d EXCEPT !.position = new_position]),
                     TRUE)
         ELSE Result(a, trigger(Event("movement_blocked", NoPosition, a.direction, <<>>), d),
                     FALSE)

\* A Move in an unknown direction that counts as blocked.
MoveAction_executeUnknownBlocked(a, d) ==
    IF a.completed THEN Result(a, d, TRUE)
    ELSE IF a.direction \notin DOMAIN DIRECTIONS
    THEN Result([a EXCEPT !.completed = TRUE],
                trigger(Event("movement_blocked", NoPosition, a.direction, <<>>), d),
                TRUE)
    ELSE LET new_position == Add(d.position, DIRECTIONS[a.direction]) IN
         IF is_valid_position(new_position)
         THEN Result([a EXCEPT !.completed = TRUE],
                     trigger(Event("drone_moved", new_position, "-", <<>>),
                             [d EXCEPT !.position = new_position]),
                     TRUE)
         ELSE Result([a EXCEPT !.completed = TRUE],
                     trigger(Event("movement_blocked", NoPosition, a.direction, <<>>), d),
                     TRUE)

\* completed is set before the event is triggered
MoveAction_execute(a, d) ==
    IF a.completed THEN Result(a, d, TRUE)
    ELSE IF a.direction \notin DOMAIN DIRECTIONS
    THEN Result([a EXCEPT !.completed = TRUE], d, TRUE)
    ELSE LET new_position == Add(d.position, DIRECTIONS[a.direction])
             done == [a EXCEPT !.completed = TRUE] IN
         IF is_valid_position(new_position)
         THEN Result(done,
                     trigger(Event("drone_moved", new_position, "-", <<>>),
                             [d EXCEPT !.position = new_position, !.executing = done]),
                     TRUE)
         ELSE Result(done,
                     trigger(Event("movement_blocked", NoPosition, a.direction, <<>>),
                             [d EXCEPT !.executing = done]),
                     TRUE)

\* A Wait that keeps counting after it completed.
WaitAction_executeAgain(a, d) ==
    LET t == a.current_tick + 1 IN
    IF t >= a.ticks
    THEN Result([a EXCEPT !.current_tick = t, !.completed = TRUE], d, TRUE)
    ELSE Result([a EXCEPT !.current_tick = t], d, FALSE)

\* A Wait that needs one execute more than its ticks.
WaitAction_executeLate(a, d) ==
    IF a.completed THEN Result(a, d, TRUE)
    ELSE LET t == a.current_tick + 1 IN
         IF t > a.ticks
         THEN Result([a EXCEPT !.current_tick = t, !.completed = TRUE], d, TRUE)
         ELSE Result([a EXCEPT !.current_tick = t], d, FALSE)

WaitAction_execute(a, d) ==
    IF a.completed THEN Result(a, d, TRUE)
    ELSE LET t == a.current_tick + 1 IN
         IF t >= a.ticks
         THEN Result([a EXCEPT !.current_tick = t, !.completed = TRUE], d, TRUE)
         ELSE Result([a EXCEPT !.current_tick = t], d, FALSE)

\* for dx in range(-r, r + 1): for dy in range(-r, r + 1): the k-th cell of the
\* double loop, k counted from 0.
\* range(-r, r): the loop stops one cell short.
SideShort(r) == IF 2 * r > 0 THEN 2 * r ELSE 0

Side(r) == IF 2 * r + 1 > 0 THEN 2 * r + 1 ELSE 0

ScanPos(p, r, k) == Position(p.x - r + (k \div Side(r)), p.y - r + (k % Side(r)))

RECURSIVE ScanFrom(_, _, _)
ScanFrom(d, r, k) ==
    IF k >= Side(r) * Side(r) THEN <<>>
    ELSE (IF is_valid_position(ScanPos(d.position, r, k))
          THEN get_entities_at(ScanPos(d.position, r, k), d)
          ELSE <<>>) \o ScanFrom(d, r, k + 1)

detected_entities(d, r) == ScanFrom(d, r, 0)

\* completed is set after the event is triggered
ScanAction_execute(a, d) ==
    IF a.completed THEN Result(a, d, TRUE)
    ELSE Result([a EXCEPT !.completed = TRUE],
                trigger(Event("scan_completed", NoPosition, "-",
                              detected_entities(d, a.range)), d),
                TRUE)

\* Action.execute, dispatched on the action's class; the call is logged, and
\* the action is the one its handlers find executing.
execute(a, d) ==
    LET logged == [d EXCEPT !.calls = Append(@, Call("execute", a.kind, a.id)),
                            !.executing = a] IN
    CASE a.kind = "move" -> MoveAction_execute(a, logged)
      [] a.kind = "wait" -> WaitAction_execute(a, logged)
      [] a.kind = "scan" -> ScanAction_execute(a, logged)

---------------------------------------------------------------------------
(* drone.py: the detector                                                  *)

NoDetector == [kind |-> "none"]

Detector(r) == [kind |-> "detector", range |-> r]

IsTarget(id, d) ==
    /\ EntityOf(id, d).entity_type = "target"
    /\ EntityOf(id, d).id # SelfId

\* The call is logged, with the detector's range for an id.
Detector_check(det, d) ==
    LET logged == [d EXCEPT !.calls = Append(@, Call("check", det.kind, det.range)),
                            !.executing = NoAction]
        targets == SelectSeq(detected_entities(d, det.range),
                             LAMBDA id : IsTarget(id, d)) IN
    IF targets # <<>>
    THEN trigger(Event("target_detected", NoPosition, "-", targets), logged)
    ELSE logged

---------------------------------------------------------------------------
(* behavior.py                                                             *)

\* An arrival test that compares the rows only.
AtTargetYOnly(b, d) == d.position.y = b.target_position.y

\* An arrival test that compares one coordinate only.
AtTargetXOnly(b, d) == d.position.x = b.target_position.x

AtTarget(b, d) ==
    d.position.x = b.target_position.x /\ d.position.y = b.target_position.y

\* lines 63-64: take the next action of the path
MoveToBehavior_next(b) ==
    IF b.current_action.kind = "none" /\ b.path # <<>>
    THEN [b EXCEPT !.current_action = Head(b.path), !.path = Tail(b.path)]
    ELSE b

\* The action was executed, and no path is planned again.
MoveToBehavior_executedNoReplan(b, r) ==
    IF r.done
    THEN Updated([b EXCEPT !.current_action = NoAction], r.drone, FALSE)
    ELSE Updated([b EXCEPT !.current_action = r.action], r.drone, FALSE)

\* A step that never plans again.
MoveToBehavior_stepNoReplan(b, d) ==
    IF b.current_action.kind # "none"
    THEN MoveToBehavior_executedNoReplan(b, execute(b.current_action, d))
    ELSE Updated(b, d, FALSE)

\* lines 67-71: the action was executed with the result r; plan again when
\* it is done and the drone is not at the target
MoveToBehavior_executed(b, r) ==
    IF r.done
    THEN IF ~AtTarget(b, r.drone)
         THEN Updated(MoveToBehavior_plan_path([b EXCEPT !.current_action = NoAction],
                                               r.drone),
                      r.drone, FALSE)
         ELSE Updated([b EXCEPT !.current_action = NoAction], r.drone, FALSE)
    ELSE Updated([b EXCEPT !.current_action = r.action], r.drone, FALSE)

\* lines 66-71: execute the current action, if there is one
MoveToBehavior_step(b, d) ==
    IF b.current_action.kind # "none"
    THEN MoveToBehavior_executed(b, execute(b.current_action, d))
    ELSE Updated(b, d, FALSE)

MoveToBehavior_update(b, d) ==
    IF b.completed THEN Updated(b, d, TRUE)
    ELSE IF AtTarget(b, d) THEN Updated([b EXCEPT !.completed = TRUE], d, TRUE)
    ELSE MoveToBehavior_step(MoveToBehavior_next(b), d)

\* The directions random.choice draws from in Explore and Search.
RandomDirections == {"up", "down", "left", "right"}

\* An Explore for which only -1 means no limit.
ExploreBehavior_updateMinusOne(b, d, choice) ==
    IF b.completed THEN Updated(b, d, TRUE)
    ELSE IF b.steps # -1 /\ b.steps # 0 /\ b.current_step >= b.steps
    THEN Updated([b EXCEPT !.completed = TRUE], d, TRUE)
    ELSE LET a == IF b.current_action.kind = "none"
                  THEN MoveAction(choice) ELSE b.current_action
             r == execute(a, d) IN
         IF r.done
         THEN Updated([b EXCEPT !.current_action = NoAction,
                                !.current_step = @ + 1], r.drone, FALSE)
         ELSE Updated([b EXCEPT !.current_action = r.action], r.drone, FALSE)

\* choice is the direction random.choice returns when it is called.
ExploreBehavior_update(b, d, choice) ==
    IF b.completed THEN Updated(b, d, TRUE)
    ELSE IF b.steps > 0 /\ b.current_step >= b.steps
    THEN Updated([b EXCEPT !.completed = TRUE], d, TRUE)
    ELSE LET a == IF b.current_action.kind = "none"
                  THEN MoveAction(choice) ELSE b.current_action
             r == execute(a, d) IN
         IF r.done
         THEN Updated([b EXCEPT !.current_action = NoAction,
                                !.current_step = @ + 1], r.drone, FALSE)
         ELSE Updated([b EXCEPT !.current_action = r.action], r.drone, FALSE)

PatrolBehavior(waypoints, loops) ==
    [kind |-> "patrol", id |-> 0, completed |-> FALSE, waypoints |-> waypoints,
     current_waypoint_index |-> 0, loops |-> loops, current_loop |-> 0,
     current_move_behavior |-> NoBehavior]

\* A Patrol that takes its waypoints from the end of the list.
PatrolBehavior_nextReversed(b, d) ==
    LET target == b.waypoints[Len(b.waypoints) - b.current_waypoint_index] IN
    [b EXCEPT !.current_move_behavior =
                  MoveToBehavior_start(MoveToBehavior(target), d),
              !.current_waypoint_index = (@ + 1) % Len(b.waypoints)]

\* lines 118-125: a new MoveTo for the current waypoint; the index moves on.
\* Sequences are 1-based, the index is the code's 0-based one.
PatrolBehavior_next(b, d) ==
    LET target == b.waypoints[b.current_waypoint_index + 1] IN
    [b EXCEPT !.current_move_behavior =
                  MoveToBehavior_start(MoveToBehavior(target), d),
              !.current_waypoint_index = (@ + 1) % Len(b.waypoints)]

\* lines 135-136: the nested MoveTo was updated with the result m
PatrolBehavior_moved(b, m) ==
    Updated([b EXCEPT !.current_move_behavior = m.behavior], m.drone, FALSE)

\* lines 129-136, the loop counted in c
PatrolBehavior_looped(c, d) ==
    IF 0 <= c.loops /\ c.loops <= c.current_loop
    THEN Updated([c EXCEPT !.completed = TRUE], d, TRUE)
    ELSE PatrolBehavior_moved(c, MoveToBehavior_update(c.current_move_behavior, d))

\* lines 127-132 and 134-136, after a new MoveTo was made
PatrolBehavior_loop(b, d) ==
    IF b.current_waypoint_index = 0
    THEN PatrolBehavior_looped([b EXCEPT !.current_loop = @ + 1], d)
    ELSE PatrolBehavior_moved(b, MoveToBehavior_update(b.current_move_behavior, d))

\* A Patrol that goes on after it completed.
PatrolBehavior_updateAgain(b, d) ==
    IF b.current_move_behavior.kind = "none" \/ b.current_move_behavior.completed
    THEN PatrolBehavior_loop(PatrolBehavior_next(b, d), d)
    ELSE PatrolBehavior_moved(b, MoveToBehavior_update(b.current_move_behavior, d))

\* line 120 raises IndexError when the index is beyond the list, which it is
\* for an empty list: nothing was assigned before it.
PatrolBehavior_update(b, d) ==
    IF b.completed THEN Updated(b, d, TRUE)
    ELSE IF b.current_move_behavior.kind = "none" \/ b.current_move_behavior.completed
    THEN IF b.current_waypoint_index >= Len(b.waypoints)
         THEN Updated(b, Raise(d, "IndexError"), FALSE)
         ELSE PatrolBehavior_loop(PatrolBehavior_next(b, d), d)
    ELSE PatrolBehavior_moved(b, MoveToBehavior_update(b.current_move_behavior, d))

SearchBehavior(steps_between_scans, scan_range, max_steps) ==
    [kind |-> "search", id |-> 0, completed |-> FALSE,
     steps_between_scans |-> steps_between_scans, scan_range |-> scan_range,
     max_steps |-> max_steps, step_count |-> 0, total_steps |-> 0,
     current_action |-> NoAction]

\* A search that scans only after more than steps_between_scans moves.
SearchBehavior_nextLate(b, choice) ==
    IF b.current_action.kind = "none"
    THEN IF b.step_count > b.steps_between_scans
         THEN [b EXCEPT !.current_action = ScanAction(b.scan_range), !.step_count = 0]
         ELSE [b EXCEPT !.current_action = MoveAction(choice)]
    ELSE b

\* lines 159-168: decide what to do next
SearchBehavior_next(b, choice) ==
    IF b.current_action.kind = "none"
    THEN IF b.step_count >= b.steps_between_scans
         THEN [b EXCEPT !.current_action = ScanAction(b.scan_range), !.step_count = 0]
         ELSE [b EXCEPT !.current_action = MoveAction(choice)]
    ELSE b

\* lines 171-176: execute the current action
SearchBehavior_step(b, d) ==
    LET r == execute(b.current_action, d) IN
    IF r.done
    THEN IF b.current_action.kind = "move"
         THEN Updated([b EXCEPT !.step_count = @ + 1, !.total_steps = @ + 1,
                                !.current_action = NoAction], r.drone, FALSE)
         ELSE Updated([b EXCEPT !.current_action = NoAction], r.drone, FALSE)
    ELSE Updated([b EXCEPT !.current_action = r.action], r.drone, FALSE)

SearchBehavior_update(b, d, choice) ==
    IF b.completed THEN Updated(b, d, TRUE)
    ELSE IF b.max_steps > 0 /\ b.total_steps >= b.max_steps
    THEN Updated([b EXCEPT !.completed = TRUE], d, TRUE)
    ELSE SearchBehavior_step(SearchBehavior_next(b, choice), d)

\* Behavior.update, dispatched on the behavior's class
Behavior_update(b, d, choice) ==
    CASE b.kind = "move_to" -> MoveToBehavior_update(b, d)
      [] b.kind = "explore" -> ExploreBehavior_update(b, d, choice)
      [] b.kind = "patrol" -> PatrolBehavior_update(b, d)
      [] b.kind = "search" -> SearchBehavior_update(b, d, choice)

---------------------------------------------------------------------------
(* drone.py: the drone                                                     *)

\* A drone that drops its behavior once it has completed.
Drone_behavedDropCompleted(u) ==
    [u.drone EXCEPT !.current_behavior = IF u.behavior.completed THEN NoBehavior
                                         ELSE u.behavior]

\* lines 160-162: the behavior was updated with the result u
Drone_behaved(u) == [u.drone EXCEPT !.current_behavior = u.behavior]

\* The action was executed, and the newest queued action is taken next.
Drone_executedNewestFirst(r) ==
    IF r.done
    THEN IF r.drone.action_queue # <<>>
         THEN [r.drone EXCEPT
                  !.current_action = r.drone.action_queue[Len(r.drone.action_queue)],
                  !.action_queue = SubSeq(@, 1, Len(@) - 1)]
         ELSE [r.drone EXCEPT !.current_action = NoAction]
    ELSE [r.drone EXCEPT !.current_action = r.action]

\* An update that takes the newest queued action next.
Drone_stepNewestFirst(d, choice) ==
    IF d.current_behavior.kind # "none"
    THEN Drone_behaved(Behavior_update(d.current_behavior, d, choice))
    ELSE IF d.current_action.kind # "none"
    THEN Drone_executedNewestFirst(execute(d.current_action, d))
    ELSE d

\* lines 165-168: the current action was executed with the result r; when it
\* is done the next action of the queue is taken
Drone_executed(r) ==
    IF r.done
    THEN IF r.drone.action_queue # <<>>
         THEN [r.drone EXCEPT !.current_action = Head(r.drone.action_queue),
                              !.action_queue = Tail(@)]
         ELSE [r.drone EXCEPT !.current_action = NoAction]
    ELSE [r.drone EXCEPT !.current_action = r.action]

\* lines 160-168: the behavior's tick, or else the current action's
Drone_step(d, choice) ==
    IF d.current_behavior.kind # "none"
    THEN Drone_behaved(Behavior_update(d.current_behavior, d, choice))
    ELSE IF d.current_action.kind # "none"
    THEN Drone_executed(execute(d.current_action, d))
    ELSE d

\* lines 170-172: the detector runs on every update that gets there, which
\* an update that raised does not
Drone_detect(d) ==
    IF d.raised = "-" /\ d.detector.kind # "none"
    THEN Detector_check(d.detector, d)
    ELSE d

\* An update that runs the detector before the step.
Drone_updateDetectFirst(d, choice) == Drone_step(Drone_detect(d), choice)

Drone_update(d, choice) == Drone_detect(Drone_step(d, choice))

\* Entity.update does nothing; the drone's update is Drone.update.  The call
\* is logged.  choices[i] is what random.choice returns in the update of the
\* i-th entry of the list.
Entity_update(id, d, choice) ==
    LET called == [d EXCEPT !.calls =
                      Append(@, Call("update", EntityOf(id, d).entity_type, id))] IN
    IF id = SelfId THEN Drone_update(called, choice) ELSE called

\* for entity in self.entities: the loop takes the i-th entry of the list as
\* the list is when the loop gets there, until i is beyond its end.
RECURSIVE UpdateFrom(_, _, _)
UpdateFrom(d, i, choices) ==
    IF i > Len(d.registry) \/ d.raised # "-" THEN d
    ELSE UpdateFrom(Entity_update(d.registry[i], d, choices[i]), i + 1, choices)

GridEnvironment_update(d, choices) == UpdateFrom(d, 1, choices)

---------------------------------------------------------------------------
(* The state machine.  Every operation starts with empty observations.     *)

Self ==
    [position |-> position, current_action |-> current_action,
     action_queue |-> action_queue, current_behavior |-> current_behavior,
     detector |-> detector, registry |-> entities, executing |-> NoAction,
     raised |-> "-", events |-> <<>>, calls |-> <<>>]

Becomes(d) ==
    /\ position' = d.position
    /\ current_action' = d.current_action
    /\ action_queue' = d.action_queue
    /\ current_behavior' = d.current_behavior
    /\ detector' = d.detector
    /\ entities' = d.registry
    /\ events' = d.events
    /\ calls' = d.calls

\* The actions waiting to be executed.
Pending(d) ==
    (IF d.current_action.kind = "none" THEN <<>> ELSE <<d.current_action>>)
        \o d.action_queue

BehaviorId(b) == IF b.kind = "none" THEN -1 ELSE b.id

Operation(name) ==
    [name |-> name, prior |-> BehaviorId(current_behavior), pending |-> Len(Pending(Self))]

Executes(cs) == SelectSeq(cs, LAMBDA c : c.op = "execute")

\* Whether the update from behavior b to behavior c completed a nested MoveTo.
NestedCompleted(b, c) ==
    /\ b.kind = "patrol" /\ ~b.completed
    /\ c.current_move_behavior.kind = "move_to"
    /\ c.current_move_behavior.completed

\* Python's True and False
Bool(v) == IF v THEN "True" ELSE "False"

\* What the call made by the step of an update returns: the behavior's
\* update, or else the current action's execute; the exception's class when
\* it raises.
Returned(d, choice) ==
    IF d.current_behavior.kind # "none"
    THEN LET u == Behavior_update(d.current_behavior, d, choice) IN
         IF u.drone.raised # "-" THEN u.drone.raised ELSE Bool(u.ret)
    ELSE IF d.current_action.kind # "none"
    THEN Bool(execute(d.current_action, d).done)
    ELSE "None"

NoCallbacks == clear_all

\* The main loop is not running: the drone is driven by hand.
NotLooping == [at |-> "none"]

\* Drone.__init__ but for the position, and a detector of range r or none
InitDrone(det) ==
    /\ current_action = NoAction
    /\ action_queue = <<>>
    /\ current_behavior = NoBehavior
    /\ detector = det
    /\ callbacks = NoCallbacks
    /\ next_id = 1
    /\ events = <<>>
    /\ calls = <<>>
    /\ op = [name |-> "init", prior |-> -1, pending |-> 0]
    /\ history = <<>>
    /\ ticks = 0
    /\ completions = 0
    /\ returned = "None"
    /\ loop = NotLooping
    /\ fleet = <<>>

InitIdle == InitDrone(NoDetector)

\* drone.set_behavior(b), b a newly constructed behavior
SetBehavior(b) ==
    /\ Becomes(Drone_set_behavior(Self, [b EXCEPT !.id = next_id]))
    /\ next_id' = next_id + 1
    /\ op' = Operation("set_behavior")
    /\ UNCHANGED <<loop, fleet>>
    /\ history' = <<>>
    /\ ticks' = 0
    /\ start' = position
    /\ completions' = 0
    /\ returned' = "None"
    /\ UNCHANGED <<others, callbacks>>

\* drone.add_action(a), a a newly constructed action
AddAction(a) ==
    /\ Becomes(Drone_add_action(Self, [a EXCEPT !.id = next_id]))
    /\ next_id' = next_id + 1
    /\ op' = Operation("add_action")
    /\ UNCHANGED <<loop, fleet>>
    /\ returned' = "None"
    /\ UNCHANGED <<others, callbacks, history, ticks, start, completions>>

\* drone.clear_actions()
ClearActions ==
    /\ Becomes(Drone_clear_actions(Self))
    /\ op' = Operation("clear_actions")
    /\ UNCHANGED <<loop, fleet>>
    /\ returned' = "None"
    /\ UNCHANGED <<others, callbacks, next_id, history, ticks, start,
                   completions>>

\* drone.clear_behavior()
ClearBehavior ==
    /\ Becomes(Drone_clear_behavior(Self))
    /\ op' = Operation("clear_behavior")
    /\ UNCHANGED <<loop, fleet>>
    /\ returned' = "None"
    /\ UNCHANGED <<others, callbacks, next_id, history, ticks, start,
                   completions>>

\* drone.update(environment): one tick of the drone
UpdateWithin(bound) ==
    /\ ticks < bound
    /\ \E choice \in RandomDirections :
         LET d == Drone_update(Self, choice) IN
         /\ Becomes(d)
         /\ history' = history \o Executes(d.calls)
         /\ completions' = completions +
               (IF NestedCompleted(current_behavior, d.current_behavior) THEN 1 ELSE 0)
         /\ returned' = Returned(Self, choice)
    /\ ticks' = ticks + 1
    /\ op' = Operation("update")
    /\ UNCHANGED <<loop, fleet>>
    /\ UNCHANGED <<others, callbacks, next_id, start>>

Update == UpdateWithin(MaxTicks)

---------------------------------------------------------------------------
(* MoveTo on an obstruction-free grid: a drone anywhere on the grid is     *)
(* given a MoveTo to any cell of the grid and is updated.                  *)

InitMoveTo ==
    /\ InitIdle
    /\ position \in GridPositions
    /\ start = position
    /\ entities = <<SelfId>>
    /\ others = <<>>

SetMoveTo ==
    /\ current_behavior.kind = "none"
    /\ \E t \in GridPositions : SetBehavior(MoveToBehavior(t))

NextMoveTo == SetMoveTo \/ (current_behavior.kind # "none" /\ Update)

SpecMoveTo == InitMoveTo /\ [][NextMoveTo]_vars

Sign(n) == IF n > 0 THEN 1 ELSE IF n < 0 THEN -1 ELSE 0

Manhattan(p, q) == Abs(p.x - q.x) + Abs(p.y - q.y)

\* Where the x-then-y rule puts a drone k ticks after it left s for t.
Along(s, t, k) ==
    LET nx == Min(k, Abs(t.x - s.x))
        ny == Min(Max(k - Abs(t.x - s.x), 0), Abs(t.y - s.y)) IN
    Position(s.x + nx * Sign(t.x - s.x), s.y + ny * Sign(t.y - s.y))

Visits32 == <<Position(1, 0), Position(2, 0), Position(3, 0), Position(3, 1), Position(3, 2)>>

\* C1: a drone given MoveTo(t) at s stands, after its k-th update, k cells along
\* the path that goes along x until x matches t and only then along y; from
\* (0,0) to (3,2) it stands on (1,0),(2,0),(3,0),(3,1),(3,2) after updates 1..5.
C1_XThenY ==
    current_behavior.kind = "move_to" =>
        /\ position = Along(start, current_behavior.target_position, ticks)
        /\ (/\ start = Position(0, 0)
            /\ current_behavior.target_position = Position(3, 2)
            /\ ticks \in 1..5) => position = Visits32[ticks]

C1_Witness ==
    /\ current_behavior.kind = "move_to"
    /\ start = Position(0, 0)
    /\ current_behavior.target_position = Position(3, 2)
    /\ ticks = 5
    /\ position = Position(3, 2)

\* C2 as claimed: with d >= 1 the Manhattan distance from start to target, the
\* MoveTo is completed by the end of the d-th update and not before.
C2_CompletedAtTickD ==
    (/\ current_behavior.kind = "move_to"
     /\ Manhattan(start, current_behavior.target_position) >= 1) =>
        (current_behavior.completed <=>
            ticks >= Manhattan(start, current_behavior.target_position))

\* C2 as amended: the drone stands on the target from the end of the d-th
\* update on, and the completed flag is set by the update after that one:
\* it is false after each of the first d updates and true after update d + 1.
C2_CompletedAtTickDPlus1 ==
    (/\ current_behavior.kind = "move_to"
     /\ Manhattan(start, current_behavior.target_position) >= 1) =>
        /\ current_behavior.completed <=>
              ticks >= Manhattan(start, current_behavior.target_position) + 1
        /\ (position = current_behavior.target_position) <=>
              ticks >= Manhattan(start, current_behavior.target_position)

C2_Witness ==
    /\ current_behavior.kind = "move_to"
    /\ start = Position(0, 0)
    /\ current_behavior.target_position = Position(3, 2)
    /\ ticks = 6
    /\ current_behavior.completed

---------------------------------------------------------------------------
(* Patrol: a drone is given a Patrol over a list of waypoints with a       *)
(* number of loops and is updated.                                         *)

PatrolStarts == {Position(0, 0), Position(2, 1)}

PatrolWaypoints ==
    {<<Position(0, 0), Position(5, 5)>>,
     <<Position(1, 0)>>,
     <<Position(1, 1), Position(0, 1), Position(2, 0)>>}

InitPatrol ==
    /\ InitIdle
    /\ position \in PatrolStarts
    /\ start = position
    /\ entities = <<SelfId>>
    /\ others = <<>>

SetPatrol ==
    /\ current_behavior.kind = "none"
    /\ \E w \in PatrolWaypoints, l \in 1..MaxLoops : SetBehavior(PatrolBehavior(w, l))

UpdatePatrol == current_behavior.kind # "none" /\ UpdateWithin(MaxPatrolTicks)

NextPatrol == SetPatrol \/ UpdatePatrol

SpecPatrol == InitPatrol /\ [][NextPatrol]_vars

\* C3 as claimed: when a Patrol with loops = L >= 1 over n waypoints is
\* completed, exactly L * n nested MoveTo behaviors have completed (4 for the
\* waypoints (0,0),(5,5) and 2 loops).
C3_EveryWaypointReached ==
    (/\ current_behavior.kind = "patrol"
     /\ current_behavior.completed) =>
        completions = current_behavior.loops * Len(current_behavior.waypoints)

\* C21: an update of a Patrol that is not completed makes a new nested
\* MoveTo only when there is none or the nested one is completed, and then
\* the drone stands on the waypoint of the completed one; the new MoveTo
\* targets the waypoint at the index, the index moves on by one and wraps to
\* 0 after the last waypoint, and the loop counter grows by one exactly when
\* it wraps; otherwise the nested MoveTo keeps its target and the index and
\* the loop counter stay.
C21_WaypointsInOrder ==
    [][(/\ op'.name = "update"
        /\ current_behavior.kind = "patrol"
        /\ ~current_behavior.completed) =>
          LET b == current_behavior
              c == current_behavior'
              n == Len(current_behavior.waypoints) IN
          IF b.current_move_behavior.kind = "none" \/ b.current_move_behavior.completed
          THEN /\ b.current_move_behavior.kind # "none" =>
                     position = b.current_move_behavior.target_position
               /\ c.current_move_behavior.target_position =
                     b.waypoints[b.current_waypoint_index + 1]
               /\ c.current_waypoint_index =
                     (IF b.current_waypoint_index = n - 1 THEN 0
                      ELSE b.current_waypoint_index + 1)
               /\ c.current_loop =
                     b.current_loop + (IF c.current_waypoint_index = 0 THEN 1 ELSE 0)
          ELSE /\ c.current_move_behavior.target_position =
                     b.current_move_behavior.target_position
               /\ c.current_waypoint_index = b.current_waypoint_index
               /\ c.current_loop = b.current_loop]_vars

\* the second lap of a Patrol over (0,0), (5,5) heads for (0,0) again, the
\* drone standing on (5,5)
C21_Witness ==
    /\ op.name = "update"
    /\ current_behavior.kind = "patrol"
    /\ current_behavior.waypoints = <<Position(0, 0), Position(5, 5)>>
    /\ current_behavior.current_loop = 1
    /\ current_behavior.current_waypoint_index = 1
    /\ current_behavior.current_move_behavior.target_position = Position(0, 0)
    /\ Manhattan(position, Position(5, 5)) = 1
    /\ completions = 2

---------------------------------------------------------------------------
(* The detector: a drone with a detector of some range stands among other  *)
(* entities (a target anywhere on the grid or beside it, and a second      *)
(* target or drone), is given Move actions and is updated.                 *)

DetectorStarts == {Position(0, 0), Position(5, 5)}

\* The cells around p, on the grid or just beside it, up to one cell out of
\* the widest range.
EntityPositions(p) ==
    {Position(x, y) : x \in Max(-1, p.x - MaxRange - 1)..Min(width, p.x + MaxRange + 1),
                      y \in Max(-1, p.y - MaxRange - 1)..Min(height, p.y + MaxRange + 1)}

Entity(p, type) == [position |-> p, entity_type |-> type]

\* The second entity, when there is one, and the registry with it; an entity
\* may be registered twice.
Registries ==
    {[entities |-> <<SelfId, 1, 2>>, second |-> Entity(Position(6, 7), "drone")],
     [entities |-> <<SelfId, 1, 2>>, second |-> Entity(Position(8, 5), "target")],
     [entities |-> <<1, SelfId, 2, 1>>, second |-> Entity(Position(6, 7), "target")]}

InitDetector ==
    /\ \E r \in -1..MaxRange : InitDrone(Detector(r))
    /\ position \in DetectorStarts
    /\ start = position
    /\ \E p \in EntityPositions(position), g \in Registries :
         /\ entities = g.entities
         /\ others = <<Entity(p, "target"), g.second>>

\* drone.add_action(MoveAction(direction)) on an idle drone
AddMove ==
    /\ current_action.kind = "none"
    /\ \E dir \in RandomDirections : AddAction(MoveAction(dir))

UpdateDetector == UpdateWithin(MaxDetectorTicks)

NextDetector == AddMove \/ UpdateDetector

SpecDetector == InitDetector /\ [][NextDetector]_vars

Chebyshev(p, q) == Max(Abs(p.x - q.x), Abs(p.y - q.y))

Range(seq) == {seq[i] : i \in DOMAIN seq}

\* The registered targets, other than the drone, on grid cells within
\* Chebyshev distance r of p.
TargetsWithin(p, r) ==
    {id \in Range(entities) \ {SelfId} :
        /\ others[id].entity_type = "target"
        /\ is_valid_position(others[id].position)
        /\ Chebyshev(others[id].position, p) <= r}

EventsOf(type) == SelectSeq(events, LAMBDA e : e.type = type)

\* C4: an update of a drone with a detector of range r fires target_detected
\* if and only if some registered target other than the drone is on a grid
\* cell within Chebyshev distance r of the drone, and then once, with exactly
\* those targets; range 2 at (5,5) detects a target at (6,7), not one at (8,5).
C4_DetectsChebyshev ==
    (op.name = "update" /\ detector.kind = "detector") =>
        /\ (EventsOf("target_detected") # <<>>) <=>
               (TargetsWithin(position, detector.range) # {})
        /\ \A i \in DOMAIN EventsOf("target_detected") :
               /\ i = 1
               /\ Range(EventsOf("target_detected")[i].entities) =
                      TargetsWithin(position, detector.range)
        /\ (position = Position(5, 5) /\ detector.range = 2) =>
               \A id \in Range(entities) \ {SelfId} :
                   /\ (others[id] = Entity(Position(6, 7), "target")) =>
                          /\ EventsOf("target_detected") # <<>>
                          /\ id \in Range(EventsOf("target_detected")[1].entities)
                   /\ (/\ others[id] = Entity(Position(8, 5), "target")
                       /\ EventsOf("target_detected") # <<>>) =>
                          id \notin Range(EventsOf("target_detected")[1].entities)

C4_Witness ==
    /\ op.name = "update"
    /\ position = Position(5, 5)
    /\ detector = Detector(2)
    /\ entities = <<1, SelfId, 2, 1>>
    /\ others = <<Entity(Position(8, 5), "target"), Entity(Position(6, 7), "target")>>
    /\ Len(EventsOf("target_detected")) = 1
    /\ Range(EventsOf("target_detected")[1].entities) = {2}

---------------------------------------------------------------------------
(* The drone's interface: set_behavior, add_action, clear_actions,         *)
(* clear_behavior and update, called in any order.                         *)

DroneBehaviors == {MoveToBehavior(Position(1, 0)), ExploreBehavior(-1)}

DroneActions == {MoveAction("right"), WaitAction(2)}

InitDroneOps ==
    /\ InitIdle
    /\ position = Position(0, 0)
    /\ start = position
    /\ entities = <<SelfId>>
    /\ others = <<>>

SetAnyBehavior ==
    /\ next_id <= MaxObjects
    /\ \E b \in DroneBehaviors : SetBehavior(b)

AddAnyAction ==
    /\ next_id <= MaxObjects
    /\ \E a \in DroneActions : AddAction(a)

\* Calls that change the drone; a clear of what is already clear is left out.
ClearSomeActions == Pending(Self) # <<>> /\ ClearActions

ClearSomeBehavior == current_behavior.kind # "none" /\ ClearBehavior

UpdateDrone == UpdateWithin(MaxDroneTicks)

NextDroneOps ==
    \/ SetAnyBehavior
    \/ AddAnyAction
    \/ ClearSomeActions
    \/ ClearSomeBehavior
    \/ UpdateDrone

SpecDroneOps == InitDroneOps /\ [][NextDroneOps]_vars

CallsOf(name) == SelectSeq(calls, LAMBDA c : c.op = name)

\* C5: right after set_behavior(b) there is no current action, the queue is
\* empty, and the installed behavior is b, not the one installed before.
C5_SetBehaviorClearsActions ==
    op.name = "set_behavior" =>
        /\ current_action = NoAction
        /\ action_queue = <<>>
        /\ current_behavior.kind # "none"
        /\ current_behavior.id = next_id - 1
        /\ current_behavior.id # op.prior

\* set_behavior was called with a current action and 3 queued ones
C5_Witness ==
    /\ op.name = "set_behavior"
    /\ op.pending = 4
    /\ current_behavior.kind = "explore"

\* C8 as claimed: a drone never has a behavior installed and an action
\* current or queued at the same time.
C8_OneModeAtATime ==
    ~(current_behavior.kind # "none" /\ Pending(Self) # <<>>)

\* C9 as claimed: a set_behavior that replaces an installed behavior, and a
\* clear_behavior of one, calls stop of that behavior exactly once, and
\* before the start of the new one.
C9_StopBeforeStart ==
    (op.name \in {"set_behavior", "clear_behavior"} /\ op.prior # -1) =>
        /\ Len(CallsOf("stop")) = 1
        /\ calls[1] = Call("stop", calls[1].kind, op.prior)

---------------------------------------------------------------------------
(* The action queue: a drone without a behavior is given Move, Wait and    *)
(* Scan actions, at any time, and is updated.                              *)

QueueActions ==
    {MoveAction("right"), MoveAction("up"), WaitAction(WaitTicks), ScanAction(1)}

InitQueue ==
    /\ InitIdle
    /\ position = Position(0, 0)
    /\ start = position
    /\ entities = <<SelfId>>
    /\ others = <<>>

AddQueued ==
    /\ next_id <= MaxQueue
    /\ \E a \in QueueActions : AddAction(a)

UpdateQueue == UpdateWithin(MaxQueueTicks)

NextQueue == AddQueued \/ UpdateQueue

SpecQueue == InitQueue /\ [][NextQueue]_vars

PendingIds == {Pending(Self)[i].id : i \in DOMAIN Pending(Self)}

Count(seq, id) == Cardinality({i \in DOMAIN seq : seq[i].id = id})

KindOf(id) == (CHOOSE i \in DOMAIN history : history[i].id = id)

\* C10: without a behavior, every update with an action pending makes exactly
\* one execute call, on the oldest pending action; actions are executed in
\* the order they were added, each until it completes (a Move or a Scan once,
\* a Wait once per tick it waits) and never again, none is skipped, and an
\* update that executes a Move leaves one pending action fewer: k Moves are
\* drained in k updates, and the drone is idle then.
C10_FifoOnePerTick ==
    /\ op.name = "update" =>
          /\ Len(Executes(calls)) = (IF op.pending > 0 THEN 1 ELSE 0)
          /\ \A i \in DOMAIN Executes(calls) :
                /\ \A id \in PendingIds : Executes(calls)[i].id <= id
                /\ Executes(calls)[i].kind # "wait" =>
                      /\ Executes(calls)[i].id \notin PendingIds
                      /\ Len(Pending(Self)) = op.pending - 1
    /\ \A i, j \in DOMAIN Pending(Self) :
          i < j => Pending(Self)[i].id < Pending(Self)[j].id
    /\ \A i \in DOMAIN Pending(Self) : ~Pending(Self)[i].completed
    /\ \A i, j \in DOMAIN history : i < j => history[i].id <= history[j].id
    /\ \A id \in 1..(next_id - 1) :
          \/ id \in PendingIds
          \/ /\ Count(history, id) = 1
             /\ history[KindOf(id)].kind \in {"move", "scan"}
          \/ /\ Count(history, id) = WaitTicks
             /\ history[KindOf(id)].kind = "wait"
    /\ (current_action = NoAction) => (action_queue = <<>>)

\* three Moves were queued and three updates later the drone is idle
C10_Witness ==
    /\ op.name = "update"
    /\ ticks = 3
    /\ next_id = 4
    /\ Len(history) = 3
    /\ \A i \in DOMAIN history : history[i].kind = "move"
    /\ history[1].id = 1 /\ history[2].id = 2 /\ history[3].id = 3
    /\ Pending(Self) = <<>>

---------------------------------------------------------------------------
(* The event manager: handlers are subscribed to event types, events are   *)
(* triggered and all subscriptions are cleared, in any order.              *)

EventTypes == {"drone_moved", "scan_completed"}

InitEvents ==
    /\ InitIdle
    /\ position = Position(0, 0)
    /\ start = position
    /\ entities = <<SelfId>>
    /\ others = <<>>

\* event_manager.on(type, handler); the subscription is logged
Subscribe ==
    /\ Len(history) < MaxSubscriptions
    /\ \E type \in EventTypes, handler \in 1..MaxHandlers :
         /\ callbacks' = on(type, handler)
         /\ history' = Append(history, Call("on", type, handler))
    /\ events' = <<>>
    /\ calls' = <<>>
    /\ op' = Operation("on")
    /\ UNCHANGED <<loop, fleet>>
    /\ returned' = "None"
    /\ UNCHANGED <<position, current_action, action_queue, current_behavior, detector,
                   entities, others, next_id, ticks, start, completions>>

\* event_manager.trigger(type, ...)
Trigger ==
    /\ \E type \in EventTypes :
         LET d == trigger(Event(type, NoPosition, "-", <<>>), Self) IN
         /\ events' = d.events
         /\ calls' = d.calls
    /\ op' = Operation("trigger")
    /\ UNCHANGED <<loop, fleet>>
    /\ returned' = "None"
    /\ UNCHANGED <<position, current_action, action_queue, current_behavior, detector,
                   entities, others, callbacks, next_id, history, ticks, start,
                   completions>>

\* event_manager.clear_all(); the log of subscriptions starts again
ClearAll ==
    /\ callbacks' = clear_all
    /\ history' = <<>>
    /\ events' = <<>>
    /\ calls' = <<>>
    /\ op' = Operation("clear_all")
    /\ UNCHANGED <<loop, fleet>>
    /\ returned' = "None"
    /\ UNCHANGED <<position, current_action, action_queue, current_behavior, detector,
                   entities, others, next_id, ticks, start, completions>>

NextEvents == Subscribe \/ Trigger \/ ClearAll

SpecEvents == InitEvents /\ [][NextEvents]_vars

\* The subscriptions to a type since the last clear_all, in the order made.
SubscriptionsTo(type) == SelectSeq(history, LAMBDA c : c.kind = type)

\* C6: trigger(name) invokes the handlers subscribed to name since the last
\* clear_all, one invocation per subscription, in the order subscribed, and
\* nothing else; after clear_all, or for a name nobody subscribed to, none.
C6_TriggerInSubscriptionOrder ==
    op.name = "trigger" =>
        /\ Len(calls) = Len(SubscriptionsTo(events[1].type))
        /\ \A i \in DOMAIN calls :
              calls[i] = Call("handler", events[1].type,
                              SubscriptionsTo(events[1].type)[i].id)

\* handler 2, handler 1 and handler 2 again were subscribed and are invoked
C6_Witness ==
    /\ op.name = "trigger"
    /\ Len(calls) = 3
    /\ calls[1].id = 2 /\ calls[2].id = 1 /\ calls[3].id = 2

---------------------------------------------------------------------------
(* Search: a drone is given a Search with a cadence and a step limit and   *)
(* is updated.                                                             *)

SearchLimits == {-1, 0, 3}

InitSearch ==
    /\ InitIdle
    /\ position = Position(1, 1)
    /\ start = position
    /\ entities = <<SelfId>>
    /\ others = <<>>

SetSearch ==
    /\ current_behavior.kind = "none"
    /\ \E c \in 0..MaxCadence, m \in SearchLimits : SetBehavior(SearchBehavior(c, 1, m))

UpdateSearch == current_behavior.kind # "none" /\ Update

NextSearch == SetSearch \/ UpdateSearch

SpecSearch == InitSearch /\ [][NextSearch]_vars

\* C7: a Search with cadence c >= 1 executes c Moves, then one Scan, then c
\* Moves again, and so on: its i-th action is a Scan when i is a multiple of
\* c + 1 and a Move otherwise, one action per update until it completes.
C7_MovesThenOneScan ==
    (current_behavior.kind = "search" /\ current_behavior.steps_between_scans >= 1) =>
        /\ \A i \in DOMAIN history :
              history[i].kind =
                  (IF i % (current_behavior.steps_between_scans + 1) = 0
                   THEN "scan" ELSE "move")
        /\ ~current_behavior.completed => Len(history) = ticks

C7_Witness ==
    /\ current_behavior.kind = "search"
    /\ current_behavior.steps_between_scans = 2
    /\ Len(history) = 6
    /\ history[1].kind = "move" /\ history[2].kind = "move" /\ history[3].kind = "scan"
    /\ history[4].kind = "move" /\ history[5].kind = "move" /\ history[6].kind = "scan"

\* The Move actions among the execute calls.
MoveCalls == SelectSeq(history, LAMBDA c : c.kind = "move")

\* C19 as claimed: a Search with cadence c >= 1 and step limit N >= 0, N = 0
\* included, never executes more than N Moves, executes one action on every
\* update until N Moves are done, and is completed by the update after,
\* which executes nothing.
C19_SearchCompletesAtLimit ==
    (/\ current_behavior.kind = "search"
     /\ current_behavior.steps_between_scans >= 1
     /\ current_behavior.max_steps >= 0) =>
        /\ Len(MoveCalls) <= current_behavior.max_steps
        /\ current_behavior.completed <=> ticks > Len(history)
        /\ current_behavior.completed =>
              /\ Len(MoveCalls) = current_behavior.max_steps
              /\ current_behavior.total_steps = current_behavior.max_steps
        /\ (Len(MoveCalls) = current_behavior.max_steps /\ ticks > Len(history)) =>
              current_behavior.completed

---------------------------------------------------------------------------
(* The detector in the three modes: a drone with a detector of range 1 and *)
(* a target near it is idle, or is given actions, or a behavior, and is    *)
(* updated.                                                                *)

MaxModeTicks == 2
MaxModeObjects == 2

ModeStart == Position(2, 2)

ModeBehaviors == {ExploreBehavior(-1), MoveToBehavior(Position(4, 2))}

ModeActions == {MoveAction(dir) : dir \in RandomDirections} \cup {WaitAction(WaitTicks)}

InitModes ==
    /\ InitDrone(Detector(1))
    /\ position = ModeStart
    /\ start = position
    /\ entities = <<SelfId, 1>>
    /\ \E p \in EntityPositions(ModeStart) : others = <<Entity(p, "target")>>

SetModeBehavior ==
    /\ next_id <= MaxModeObjects
    /\ Pending(Self) = <<>>
    /\ \E b \in ModeBehaviors : SetBehavior(b)

AddModeAction ==
    /\ next_id <= MaxModeObjects
    /\ current_behavior.kind = "none"
    /\ \E a \in ModeActions : AddAction(a)

UpdateModes == UpdateWithin(MaxModeTicks)

NextModes == SetModeBehavior \/ AddModeAction \/ UpdateModes

SpecModes == InitModes /\ [][NextModes]_vars

\* C11: every update of a drone with a detector calls Detector.check exactly
\* once, after the execute call of the tick if there is one, with a behavior,
\* with a pending action and idle alike; target_detected is fired, last of
\* the tick's events, exactly when a target is in range of the position the
\* drone has after the tick's move.
C11_DetectAfterStep ==
    (op.name = "update" /\ detector.kind = "detector") =>
        /\ Len(CallsOf("check")) = 1
        /\ calls[Len(calls)].op = "check"
        /\ op.prior = -1 =>
               Len(Executes(calls)) = (IF op.pending > 0 THEN 1 ELSE 0)
        /\ Len(Executes(calls)) <= 1
        /\ (EventsOf("target_detected") # <<>>) <=>
               (TargetsWithin(position, detector.range) # {})
        /\ \A i \in DOMAIN events :
               events[i].type = "target_detected" => i = Len(events)

\* the first update moves the drone from a cell with no target in range to
\* one with a target in range, and target_detected follows drone_moved
C11_Witness ==
    /\ op.name = "update"
    /\ ticks = 1
    /\ TargetsWithin(start, detector.range) = {}
    /\ position # start
    /\ Len(events) = 2
    /\ events[1].type = "drone_moved"
    /\ events[2].type = "target_detected"

---------------------------------------------------------------------------
(* The actions: a drone in the corner of the grid is given Move, Wait and  *)
(* Scan actions and is updated; the caller also calls execute and reset of *)
(* the drone's current action itself.                                      *)

MaxActionObjects == 2
MaxActionTicks == 4
MaxActionCalls == 5

ActionKinds ==
    {MoveAction(dir) : dir \in DirectionNames \cup {"north"}}
        \cup {WaitAction(n) : n \in 1..WaitTicks} \cup {ScanAction(1)}

InitActions ==
    /\ InitIdle
    /\ position = Position(0, 0)
    /\ start = position
    /\ entities = <<SelfId>>
    /\ others = <<>>

\* The actions queued behind a current action.
QueuedKinds == {MoveAction("right"), ScanAction(1)}

\* drone.add_action(a): any kind for the current action, and a Move or a
\* Scan behind it
AddAnyKind ==
    /\ next_id <= MaxActionObjects
    /\ \E a \in (IF current_action.kind = "none" THEN ActionKinds ELSE QueuedKinds) :
         AddAction(a)

\* The updates of a drone that has an action to execute.
UpdateActions ==
    /\ current_action.kind # "none"
    /\ Len(history) < MaxActionCalls
    /\ UpdateWithin(MaxActionTicks)

\* drone.current_action.execute(drone, environment), called by hand
ExecuteCurrent ==
    /\ current_action.kind # "none"
    /\ Len(history) < MaxActionCalls
    /\ LET r == execute(current_action, Self) IN
         /\ Becomes([r.drone EXCEPT !.current_action = r.action])
         /\ history' = history \o Executes(r.drone.calls)
         /\ returned' = Bool(r.done)
    /\ op' = Operation("execute")
    /\ UNCHANGED <<loop, fleet>>
    /\ UNCHANGED <<others, callbacks, next_id, ticks, start, completions>>

\* drone.current_action.reset(), called by hand; the call is logged
ResetCurrent ==
    /\ current_action.kind # "none"
    /\ Len(history) < MaxActionCalls
    /\ LET c == Call("reset", current_action.kind, current_action.id) IN
         /\ Becomes([Self EXCEPT !.current_action = Action_reset(@), !.calls = <<c>>])
         /\ history' = Append(history, c)
    /\ returned' = "None"
    /\ op' = Operation("reset")
    /\ UNCHANGED <<loop, fleet>>
    /\ UNCHANGED <<others, callbacks, next_id, ticks, start, completions>>

NextActions == AddAnyKind \/ UpdateActions \/ ExecuteCurrent \/ ResetCurrent

SpecActions == InitActions /\ [][NextActions]_vars

\* An execute call is made on the drone's current action: by hand, or by the
\* update of a drone without a behavior.
ExecutesCurrent ==
    /\ op'.name \in {"execute", "update"}
    /\ current_behavior.kind = "none"
    /\ current_action.kind # "none"

\* The drone's current action and queue after an update that completed the
\* current action.
Advanced ==
    /\ current_action' = (IF action_queue # <<>> THEN Head(action_queue) ELSE NoAction)
    /\ action_queue' = (IF action_queue # <<>> THEN Tail(action_queue) ELSE <<>>)

\* C12: an execute call on a completed Move, Wait or Scan returns True, and
\* changes neither the drone's position nor the action (its completed flag
\* and counters), and fires no event.
C12_ExecuteAfterCompleted ==
    [][(ExecutesCurrent /\ current_action.completed) =>
          /\ returned' = "True"
          /\ position' = position
          /\ events' = <<>>
          /\ op'.name = "execute" => current_action' = current_action]_vars

\* a Wait of 2 ticks was executed three times: it is completed, and its
\* counter is 2
C12_Witness ==
    /\ op.name = "execute"
    /\ current_action.kind = "wait"
    /\ current_action.completed
    /\ current_action.current_tick = 2
    /\ Count(history, current_action.id) = 3
    /\ \A i \in DOMAIN history : history[i].op = "execute"
    /\ returned = "True"

\* C13: the first execute of a Move in a known direction returns True and
\* completes the Move: onto a grid cell the drone moves there and drone_moved
\* with the new position is the one event fired; off the grid the drone
\* stays, movement_blocked with the direction is the one event fired, and
\* the Move, being completed, leaves the drone on the update that ran it.
C13_MoveCompletesAtOnce ==
    [][(/\ ExecutesCurrent
        /\ current_action.kind = "move"
        /\ ~current_action.completed
        /\ current_action.direction \in DirectionNames) =>
          /\ returned' = "True"
          /\ op'.name = "execute" =>
                current_action' = [current_action EXCEPT !.completed = TRUE]
          /\ op'.name = "update" => Advanced
          /\ IF is_valid_position(Add(position, DIRECTIONS[current_action.direction]))
             THEN /\ position' = Add(position, DIRECTIONS[current_action.direction])
                  /\ events' = <<Event("drone_moved", position', "-", <<>>)>>
             ELSE /\ position' = position
                  /\ events' = <<Event("movement_blocked", NoPosition,
                                        current_action.direction, <<>>)>>]_vars

\* a Move up from the corner was blocked on the first update, and the drone
\* is idle, where it started, with nothing pending
C13_Witness ==
    /\ op.name = "update"
    /\ ticks = 1
    /\ history = <<Call("execute", "move", 1)>>
    /\ events = <<Event("movement_blocked", NoPosition, "up", <<>>)>>
    /\ position = start
    /\ Pending(Self) = <<>>
    /\ returned = "True"

\* C14: the first execute of a Move in a direction that is not in DIRECTIONS
\* returns True and completes the Move, the drone stays where it is and no
\* event is fired; the update that ran it takes the next queued action.
C14_UnknownDirectionNoOp ==
    [][(/\ ExecutesCurrent
        /\ current_action.kind = "move"
        /\ ~current_action.completed
        /\ current_action.direction \notin DirectionNames) =>
          /\ returned' = "True"
          /\ position' = position
          /\ events' = <<>>
          /\ op'.name = "execute" =>
                current_action' = [current_action EXCEPT !.completed = TRUE]
          /\ op'.name = "update" => Advanced]_vars

\* the first update ran a Move that fired no event, and the Move queued
\* behind it is the current action
C14_Witness ==
    /\ op.name = "update"
    /\ ticks = 1
    /\ history = <<Call("execute", "move", 1)>>
    /\ events = <<>>
    /\ position = start
    /\ returned = "True"
    /\ current_action.kind = "move"
    /\ current_action.id = 2
    /\ action_queue = <<>>

\* The execute calls on action id in the log h since the action was
\* constructed or last reset.
ExecutesSinceReset(h, id) ==
    Cardinality({i \in DOMAIN h :
        /\ h[i] = Call("execute", h[i].kind, id)
        /\ \A j \in DOMAIN h : h[j] = Call("reset", h[j].kind, id) => j < i})

\* C15: an execute of a pending Wait(n) returns True when it is the n-th
\* since the Wait was constructed or reset, and False before; it moves
\* nothing and fires nothing; while it returns False an update keeps the
\* Wait and the queue, and the update of the n-th takes the next action.
C15_WaitCompletesOnNth ==
    [][(/\ ExecutesCurrent
        /\ current_action.kind = "wait"
        /\ ~current_action.completed) =>
          /\ returned' = Bool(ExecutesSinceReset(history', current_action.id) = current_action.ticks)
          /\ ExecutesSinceReset(history', current_action.id) <= current_action.ticks
          /\ position' = position
          /\ events' = <<>>
          /\ returned' = "False" =>
                /\ current_action'.id = current_action.id
                /\ ~current_action'.completed
                /\ action_queue' = action_queue
          /\ (returned' = "True" /\ op'.name = "execute") =>
                /\ current_action'.id = current_action.id
                /\ current_action'.completed
          /\ (returned' = "True" /\ op'.name = "update") => Advanced]_vars

\* Wait(2) and a Move right were added; the Wait was updated once, reset,
\* and updated twice more, and the fourth update moved the drone
C15_Witness ==
    /\ op.name = "update"
    /\ ticks = 4
    /\ history = <<Call("execute", "wait", 1), Call("reset", "wait", 1),
                   Call("execute", "wait", 1), Call("execute", "wait", 1),
                   Call("execute", "move", 2)>>
    /\ position = Position(1, 0)
    /\ Pending(Self) = <<>>

---------------------------------------------------------------------------
(* Scan: a drone among other entities, on the grid or beside it, is given  *)
(* a Scan of some range and is updated.                                    *)

MaxScanTicks == 1

InitScan ==
    /\ InitIdle
    /\ position \in DetectorStarts
    /\ start = position
    /\ \E p \in EntityPositions(position), g \in Registries :
         /\ entities = g.entities
         /\ others = <<Entity(p, "target"), g.second>>

\* drone.add_action(ScanAction(r)) on an idle drone
AddScan ==
    /\ current_action.kind = "none"
    /\ ticks = 0
    /\ \E r \in -1..MaxRange : AddAction(ScanAction(r))

UpdateScan == UpdateWithin(MaxScanTicks)

NextScan == AddScan \/ UpdateScan

SpecScan == InitScan /\ [][NextScan]_vars

\* The places in the registry of the entities on grid cells within
\* Chebyshev distance r of the drone, the drone itself among them.
RegisteredWithin(r) ==
    {i \in DOMAIN entities :
        /\ is_valid_position(EntityOf(entities[i], Self).position)
        /\ Chebyshev(EntityOf(entities[i], Self).position, position) <= r}

\* C16: the update that first runs a Scan of range r completes it and fires
\* one event, scan_completed, whose entities are the registered entities on
\* grid cells within Chebyshev distance r of the drone, each once per
\* registration, the scanning drone among them; no entity changes position.
C16_ScanReportsChebyshev ==
    [][(ExecutesCurrent /\ current_action.kind = "scan" /\ ~current_action.completed) =>
          /\ returned' = "True"
          /\ Advanced
          /\ position' = position
          /\ others' = others
          /\ Len(events') = 1
          /\ events'[1].type = "scan_completed"
          /\ Range(events'[1].entities) =
                {entities[i] : i \in RegisteredWithin(current_action.range)}
          /\ Len(events'[1].entities) = Cardinality(RegisteredWithin(current_action.range))
          /\ current_action.range >= 0 => SelfId \in Range(events'[1].entities)]_vars

\* a Scan at (5,5) reports the drone and the target at (6,7), and not the
\* target at (8,5), which is registered twice
C16_Witness ==
    /\ op.name = "update"
    /\ history = <<Call("execute", "scan", 1)>>
    /\ position = Position(5, 5)
    /\ entities = <<1, SelfId, 2, 1>>
    /\ others = <<Entity(Position(8, 5), "target"), Entity(Position(6, 7), "target")>>
    /\ Len(events) = 1
    /\ events[1].type = "scan_completed"
    /\ events[1].entities = <<SelfId, 2>>

---------------------------------------------------------------------------
(* Completed behaviors: a drone is given a behavior that completes within  *)
(* a few ticks and is updated, also after the behavior completed.          *)

MaxSteps == 2
MaxCompletedTicks == 5

CompletingBehaviors ==
    {MoveToBehavior(t) : t \in {Position(1, 1), Position(2, 1), Position(0, 2)}}
        \cup {ExploreBehavior(n) : n \in 1..MaxSteps}
        \cup {PatrolBehavior(w, 1) : w \in {<<Position(2, 1)>>,
                                             <<Position(1, 1), Position(1, 2)>>}}
        \cup {SearchBehavior(1, 1, n) : n \in 1..MaxSteps}

InitCompleted ==
    /\ InitIdle
    /\ position = Position(1, 1)
    /\ start = position
    /\ entities = <<SelfId>>
    /\ others = <<>>

SetCompleting ==
    /\ current_behavior.kind = "none"
    /\ \E b \in CompletingBehaviors : SetBehavior(b)

UpdateCompleted == current_behavior.kind # "none" /\ UpdateWithin(MaxCompletedTicks)

NextCompleted == SetCompleting \/ UpdateCompleted

SpecCompleted == InitCompleted /\ [][NextCompleted]_vars

\* C17: an update of a drone whose MoveTo, Explore, Patrol or Search is
\* completed returns True from the behavior and changes nothing: the drone
\* stays, the behavior with its counters, path and nested behavior is the
\* same, no action is executed and no event fired.
C17_CompletedIsNoOp ==
    [][(/\ op'.name = "update"
        /\ current_behavior.kind # "none"
        /\ current_behavior.completed) =>
          /\ returned' = "True"
          /\ position' = position
          /\ current_behavior' = current_behavior
          /\ calls' = <<>>
          /\ events' = <<>>]_vars

\* a Patrol that completed on its second update, with its last MoveTo not
\* completed, was updated three times more
C17_Witness ==
    /\ op.name = "update"
    /\ ticks = 5
    /\ current_behavior.kind = "patrol"
    /\ current_behavior.completed
    /\ Len(current_behavior.waypoints) = 2
    /\ ~current_behavior.current_move_behavior.completed
    /\ returned = "True"
    /\ calls = <<>>

---------------------------------------------------------------------------
(* Limits: a drone is given an Explore, a Patrol or a Search with a limit  *)
(* that is negative, zero or positive, and is updated.                     *)

MaxUnbounded == 2
MaxLimitTicks == 6

Limits == (-MaxUnbounded)..MaxSteps

LimitedBehaviors ==
    {ExploreBehavior(n) : n \in Limits}
        \cup {PatrolBehavior(<<Position(1, 1), Position(2, 1)>>, n) : n \in Limits}
        \cup {SearchBehavior(1, 1, n) : n \in Limits}

InitLimits ==
    /\ InitIdle
    /\ position = Position(1, 1)
    /\ start = position
    /\ entities = <<SelfId>>
    /\ others = <<>>

SetLimited ==
    /\ current_behavior.kind = "none"
    /\ \E b \in LimitedBehaviors : SetBehavior(b)

UpdateLimits == current_behavior.kind # "none" /\ UpdateWithin(MaxLimitTicks)

NextLimits == SetLimited \/ UpdateLimits

SpecLimits == InitLimits /\ [][NextLimits]_vars

\* The limit a behavior was constructed with.
LimitOf(b) ==
    CASE b.kind = "explore" -> b.steps
      [] b.kind = "patrol" -> b.loops
      [] b.kind = "search" -> b.max_steps

\* C18 as claimed: an Explore with step limit N >= 0, N = 0 included, never
\* executes more than N Moves, is completed by update N + 1, and has then
\* executed N Moves and counted N steps.
C18_ExploreCompletesAtLimit ==
    (current_behavior.kind = "explore" /\ current_behavior.steps >= 0) =>
        /\ Len(history) <= current_behavior.steps
        /\ ticks > current_behavior.steps => current_behavior.completed
        /\ current_behavior.completed =>
              /\ Len(history) = current_behavior.steps
              /\ current_behavior.current_step = current_behavior.steps

\* C20: an Explore, a Patrol or a Search constructed with a negative limit
\* is not completed after any number of updates, and each of its updates
\* returns False.
C20_NegativeLimitNeverCompletes ==
    (current_behavior.kind \in {"explore", "patrol", "search"}
         /\ LimitOf(current_behavior) < 0) =>
        /\ ~current_behavior.completed
        /\ op.name = "update" => returned = "False"

\* an Explore with step limit -2 has made six steps
C20_Witness ==
    /\ op.name = "update"
    /\ current_behavior.kind = "explore"
    /\ current_behavior.steps = -2
    /\ current_behavior.current_step = 6
    /\ ticks = 6
    /\ returned = "False"

---------------------------------------------------------------------------
(* The tick: the environment updates its entities, the drone among two     *)
(* targets; the drone may be registered twice, and a handler of            *)
(* drone_moved may remove or add an entity.                                *)

MaxRegistered == 5
MaxTickObjects == 2
MaxEnvTicks == 2

TickRegistries ==
    {<<SelfId, 1, 2>>, <<1, SelfId, 2>>, <<SelfId, 1, SelfId>>, <<SelfId, 1>>}

TickHandlers == {1, RemoveEntity, AddEntity}

InitTick ==
    /\ InitIdle
    /\ position = Position(1, 1)
    /\ start = position
    /\ entities \in TickRegistries
    /\ others = <<Entity(Position(0, 0), "target"), Entity(Position(3, 3), "target")>>

\* event_manager.on("drone_moved", handler), before the first tick
SubscribeTick ==
    /\ ticks = 0
    /\ callbacks = NoCallbacks
    /\ \E h \in TickHandlers : callbacks' = on("drone_moved", h)
    /\ events' = <<>>
    /\ calls' = <<>>
    /\ op' = Operation("on")
    /\ UNCHANGED <<loop, fleet>>
    /\ returned' = "None"
    /\ UNCHANGED <<position, current_action, action_queue, current_behavior, detector,
                   entities, others, next_id, history, ticks, start, completions>>

AddTickMove ==
    /\ next_id <= MaxTickObjects
    /\ \E dir \in RandomDirections : AddAction(MoveAction(dir))

\* What random.choice may return during a tick; a drone without a behavior
\* never asks.
TickChoices ==
    IF current_behavior.kind = "none"
    THEN {[i \in 1..MaxRegistered |-> "up"]}
    ELSE [1..MaxRegistered -> RandomDirections]

\* environment.update(): one tick
Tick ==
    /\ ticks < MaxEnvTicks
    /\ Len(entities) + Cardinality({i \in DOMAIN entities : entities[i] = SelfId})
          <= MaxRegistered
    /\ \E choices \in TickChoices :
         LET d == GridEnvironment_update(Self, choices) IN
         /\ Becomes(d)
         /\ history' = history \o Executes(d.calls)
    /\ ticks' = ticks + 1
    /\ op' = Operation("tick")
    /\ UNCHANGED <<loop, fleet>>
    /\ returned' = "None"
    /\ UNCHANGED <<others, callbacks, next_id, start, completions>>

NextTick == SubscribeTick \/ AddTickMove \/ Tick

SpecTick == InitTick /\ [][NextTick]_vars

\* The entries of a list without the repetitions, in the order of their
\* first occurrence.
RECURSIVE Distinct(_)
Distinct(seq) ==
    IF seq = <<>> THEN <<>>
    ELSE LET rest == Distinct(SubSeq(seq, 1, Len(seq) - 1)) IN
         IF seq[Len(seq)] \in Range(rest) THEN rest ELSE Append(rest, seq[Len(seq)])

\* The ids of the update calls on the entities in the set ids.
UpdatesOf(cs, ids) ==
    LET ups == SelectSeq(cs, LAMBDA c : c.op = "update" /\ c.id \in ids) IN
    [i \in DOMAIN ups |-> ups[i].id]

\* C22 as claimed: a tick calls the update of every entity registered when
\* it starts exactly once, in the order of registration, also when the
\* entity is registered twice or a handler adds or removes an entity.
C22_EveryEntityOncePerTick ==
    [][op'.name = "tick" =>
          UpdatesOf(calls', Range(entities)) = Distinct(entities)]_vars

---------------------------------------------------------------------------
(* llm_controller.py.  A Python value the translation hands back is tagged *)
(* with its type; a dict is a function from its keys, a target is its      *)
(* drone_id, 0 when it has none (both are falsy).                          *)

None == [type |-> "NoneType"]
Dict(v) == [type |-> "dict", value |-> v]
List(v) == [type |-> "list", value |-> v]
EmptyDict == [key \in {} |-> 0]

\* dict.get(key, default)
Get(dict, key, default) == IF key \in DOMAIN dict THEN dict[key] ELSE default

\* bool(v) of None, a dict or a list
Truthy(v) ==
    CASE v.type = "dict" -> DOMAIN v.value # {}
      [] v.type = "list" -> v.value # <<>>
      [] OTHER -> FALSE

\* What create_behavior hands back when a key it needs is missing.
KeyError == [kind |-> "raise"]

\* BehaviorFactory.create_behavior: None for an unknown type
BehaviorFactory_create_behavior(behavior_type, params) ==
    CASE behavior_type = "move_to" ->
           IF {"x", "y"} \subseteq DOMAIN params
           THEN MoveToBehavior(Position(params.x, params.y))
           ELSE KeyError
      [] behavior_type = "explore" -> ExploreBehavior(Get(params, "steps", -1))
      [] behavior_type = "patrol" ->
           IF "waypoints" \in DOMAIN params
           THEN PatrolBehavior([i \in DOMAIN params.waypoints |->
                                    Position(params.waypoints[i].x, params.waypoints[i].y)],
                               Get(params, "loops", -1))
           ELSE KeyError
      [] behavior_type = "search" ->
           SearchBehavior(Get(params, "steps_between_scans", 1),
                          Get(params, "scan_range", 1),
                          Get(params, "max_steps", -1))
      [] OTHER -> NoBehavior

\* lines 319-335: the targets that name a drone of the list, in order
TargetDrones(targets, drone_ids) ==
    SelectSeq(targets, LAMBDA t : t # 0 /\ \E i \in DOMAIN drone_ids : drone_ids[i] = t)

\* One application of a behavior to a drone: the drone's id, the behavior,
\* and whether the drone's behavior and actions are cleared first.
Application(drone_id, behavior, clears) ==
    [drone_id |-> drone_id, behavior |-> behavior, clears |-> clears]

\* _execute_single_behavior_command: the applications it makes, in order,
\* and what it returns.  The behavior is created anew for every drone from
\* the same parameters, so that it fails for the first or for none.
LLMController_execute_single_behavior_command(command_json, drone_ids) ==
    LET behavior_type == Get(command_json, "behavior_type", "")
        targets == Get(command_json, "targets", <<>>)
        parameters == Get(command_json, "parameters", EmptyDict)
        target_drones == TargetDrones(targets, drone_ids)
        behavior == BehaviorFactory_create_behavior(behavior_type, parameters) IN
    IF behavior_type = "" \/ targets = <<>> \/ target_drones = <<>>
          \/ behavior.kind \in {"none", "raise"}
    THEN [applications |-> <<>>, ret |-> FALSE]
    ELSE [applications |-> [i \in DOMAIN target_drones |->
                               Application(target_drones[i], behavior, TRUE)],
          ret |-> TRUE]

RECURSIVE ApplicationsOfList(_, _)
ApplicationsOfList(cmds, drone_ids) ==
    IF cmds = <<>> THEN <<>>
    ELSE LLMController_execute_single_behavior_command(Head(cmds), drone_ids).applications
            \o ApplicationsOfList(Tail(cmds), drone_ids)

\* execute_behavior_command: every command of a list, or the one command
LLMController_execute_behavior_command(command, drone_ids) ==
    IF command.type = "list"
    THEN [applications |-> ApplicationsOfList(command.value, drone_ids), ret |-> TRUE]
    ELSE LLMController_execute_single_behavior_command(command.value, drone_ids)

\* lines 45-54: the mock gives every drone an Explore without a limit
MockApplications(drone_ids) ==
    [i \in DOMAIN drone_ids |-> Application(drone_ids[i], ExploreBehavior(-1), FALSE)]

\* lines 59-76: the status of the result.  What execute_behavior_command
\* returns is dropped, and it raises nothing.
LLMController_status(command, drone_ids) ==
    IF Truthy(command) THEN "success" ELSE "error"

\* lines 346-350, or line 51 for the mock
Apply(a, d, id) ==
    LET b == [a.behavior EXCEPT !.id = id] IN
    IF a.clears
    THEN Drone_set_behavior(Drone_clear_actions(Drone_clear_behavior(d)), b)
    ELSE Drone_set_behavior(d, b)

---------------------------------------------------------------------------
(* main.py: the main loop with two drones, no targets, and goals that are  *)
(* translated by the mock or by the collaborator.  The other drone is      *)
(* updated as the drone is, alone in its registry.  The history records    *)
(* the goals, their targets, the behaviors set and the ticks.              *)

MaxGoals == 1
MaxLoopTicks == 2

\* The drone's own part of drone d, as fleet keeps it.
Stored(d) ==
    [position |-> d.position, current_action |-> d.current_action,
     action_queue |-> d.action_queue, current_behavior |-> d.current_behavior,
     detector |-> d.detector]

\* The other drone f with the observations of log.
AsDrone(f, log) ==
    [position |-> f.position, current_action |-> f.current_action,
     action_queue |-> f.action_queue, current_behavior |-> f.current_behavior,
     detector |-> f.detector, registry |-> <<SelfId>>, executing |-> NoAction,
     raised |-> log.raised, events |-> log.events, calls |-> log.calls]

\* drone.drone_id of the drones list, in order
DroneIds == [i \in 1..(1 + Len(fleet)) |-> i]

\* The drone with drone_id k
DroneNo(k) == IF k = 1 THEN Self ELSE AsDrone(fleet[k - 1], Self)

\* The drone with drone_id k becomes d.
DroneNoBecomes(k, d) ==
    IF k = 1
    THEN Becomes(d) /\ UNCHANGED fleet
    ELSE /\ fleet' = [fleet EXCEPT ![k - 1] = Stored(d)]
         /\ events' = d.events
         /\ calls' = d.calls
         /\ UNCHANGED <<position, current_action, action_queue, current_behavior,
                        detector, entities>>

\* What the translation may hand back for a goal.
Commands ==
    {[behavior_type |-> "explore", targets |-> <<1, 2>>, parameters |-> [steps |-> -1]],
     [behavior_type |-> "move_to", targets |-> <<2, 1>>, parameters |-> [x |-> 2, y |-> 1]],
     [behavior_type |-> "move_to", targets |-> <<1>>, parameters |-> EmptyDict],
     [behavior_type |-> "teleport", targets |-> <<1, 2>>, parameters |-> EmptyDict],
     [behavior_type |-> "explore", targets |-> <<3, 0>>, parameters |-> EmptyDict],
     [behavior_type |-> "explore", targets |-> <<>>, parameters |-> EmptyDict],
     [behavior_type |-> "patrol", targets |-> <<1>>,
      parameters |-> [waypoints |-> <<[x |-> 2, y |-> 1]>>, loops |-> 1]],
     [behavior_type |-> "search", targets |-> <<2>>,
      parameters |-> [steps_between_scans |-> 0, max_steps |-> 0]],
     [behavior_type |-> "move_to", targets |-> <<1>>, parameters |-> [x |-> -1, y |-> 9]],
     [behavior_type |-> "patrol", targets |-> <<2>>,
      parameters |-> [waypoints |-> <<>>]]}

Replies ==
    {None, Dict(EmptyDict), Dict([error |-> "reason"]), Dict([targets |-> <<1>>]),
     List(<<[behavior_type |-> "explore", targets |-> <<2>>],
            [behavior_type |-> "teleport", targets |-> <<1>>]>>)}
        \cup {Dict(c) : c \in Commands}

InitLoop ==
    /\ position = Position(1, 1)
    /\ start = position
    /\ current_action = NoAction
    /\ action_queue = <<>>
    /\ current_behavior = NoBehavior
    /\ detector = Detector(1)
    /\ entities = <<SelfId>>
    /\ others = <<>>
    /\ fleet = <<[position |-> Position(2, 2), current_action |-> NoAction,
                  action_queue |-> <<>>, current_behavior |-> NoBehavior,
                  detector |-> Detector(1)]>>
    /\ callbacks = ("target_detected" :> <<1>>)
    /\ next_id = 1
    /\ events = <<>>
    /\ calls = <<>>
    /\ op = [name |-> "init", prior |-> -1, pending |-> 0]
    /\ history = <<>>
    /\ ticks = 0
    /\ completions = 0
    /\ returned = "None"
    /\ loop \in {[at |-> "events", mock |-> m, goal |-> 0, todo |-> <<>>,
                  status |-> "-"] : m \in BOOLEAN}

\* The targets of the applications, as history records them.
Targets(applications, goal) ==
    [i \in DOMAIN applications |-> Call("target", "-", applications[i].drone_id)]

\* lines 132-138 and process_goal up to its await: Enter with a goal.  The
\* mock awaits nothing.
KeyReturn ==
    /\ loop.at = "events"
    /\ loop.goal < MaxGoals
    /\ IF loop.mock
       THEN /\ loop' = [loop EXCEPT !.at = "applying", !.goal = @ + 1,
                                    !.todo = MockApplications(DroneIds),
                                    !.status = "success"]
            /\ history' = Append(history, Call("process_goal", "mock", loop.goal + 1))
                             \o Targets(MockApplications(DroneIds), loop.goal + 1)
       ELSE /\ loop' = [loop EXCEPT !.at = "awaiting", !.goal = @ + 1]
            /\ history' = Append(history, Call("process_goal", "await", loop.goal + 1))
    /\ op' = Operation("process_goal")
    /\ returned' = "None"
    /\ events' = <<>>
    /\ calls' = <<>>
    /\ UNCHANGED <<position, current_action, action_queue, current_behavior,
                   detector, entities, others, callbacks, next_id, ticks, start,
                   completions, fleet>>

\* line 59: the await ends with what _generate_behavior_command hands back,
\* None when the collaborator raised
TranslationReturns ==
    /\ loop.at = "awaiting"
    /\ \E command \in Replies :
         LET applications ==
                 IF Truthy(command)
                 THEN LLMController_execute_behavior_command(command, DroneIds).applications
                 ELSE <<>> IN
         /\ loop' = [loop EXCEPT !.at = "applying", !.todo = applications,
                                 !.status = LLMController_status(command, DroneIds)]
         /\ history' = Append(history, Call("reply", command.type, loop.goal))
                          \o Targets(applications, loop.goal)
    /\ op' = Operation("reply")
    /\ returned' = "None"
    /\ events' = <<>>
    /\ calls' = <<>>
    /\ UNCHANGED <<position, current_action, action_queue, current_behavior,
                   detector, entities, others, callbacks, next_id, ticks, start,
                   completions, fleet>>

\* The next drone of the goal is given its behavior.
ApplyNext ==
    /\ loop.at = "applying"
    /\ loop.todo # <<>>
    /\ LET a == Head(loop.todo) IN
       /\ DroneNoBecomes(a.drone_id, Apply(a, DroneNo(a.drone_id), next_id))
       /\ history' = Append(history, Call("set_behavior", a.behavior.kind, a.drone_id))
    /\ next_id' = next_id + 1
    /\ loop' = [loop EXCEPT !.todo = Tail(@)]
    /\ op' = Operation("apply")
    /\ returned' = "None"
    /\ UNCHANGED <<others, callbacks, ticks, start, completions>>

\* process_goal returns its result to the loop.
ProcessGoalReturns ==
    /\ loop.at = "applying"
    /\ loop.todo = <<>>
    /\ loop' = [loop EXCEPT !.at = "events"]
    /\ returned' = loop.status
    /\ history' = Append(history, Call("return", loop.status, loop.goal))
    /\ op' = Operation("return")
    /\ events' = <<>>
    /\ calls' = <<>>
    /\ UNCHANGED <<position, current_action, action_queue, current_behavior,
                   detector, entities, others, callbacks, next_id, ticks, start,
                   completions, fleet>>

\* The updates of the other drones, from the k-th on, after the updates that
\* left the first drone as d; an exception ends them.
RECURSIVE UpdateFleet(_, _, _, _, _)
RECURSIVE FleetUpdated(_, _, _, _, _)
UpdateFleet(d, fl, k, log, choices) ==
    IF k > Len(fl) \/ log.raised # "-"
    THEN [drone |-> d, fleet |-> fl, log |-> log]
    ELSE FleetUpdated(d, fl, k,
                      Entity_update(SelfId, AsDrone(fl[k], log), choices[k + 1]),
                      choices)

\* The k-th other drone was updated and is u now.
FleetUpdated(d, fl, k, u, choices) ==
    UpdateFleet(d, [fl EXCEPT ![k] = Stored(u)], k + 1, u, choices)

\* environment.update() of line 151: the drone, then the other drones
AllUpdated(d, choices) == UpdateFleet(d, fleet, 1, d, choices)

\* The drones are as the tick u left them; an exception ends run_simulation.
LoopTicked(u) ==
    /\ Becomes([u.drone EXCEPT !.events = u.log.events, !.calls = u.log.calls])
    /\ fleet' = u.fleet
    /\ loop' = [loop EXCEPT !.at = IF u.log.raised # "-" THEN "crashed" ELSE @]
    /\ returned' = IF u.log.raised # "-" THEN u.log.raised ELSE "None"

\* line 151, reached from the places of the loop in the set: the tick of
\* all drones
LoopTickFrom(places) ==
    /\ loop.at \in places
    /\ ticks < MaxLoopTicks
    /\ \E choices \in [1..(1 + Len(fleet)) -> RandomDirections] :
         LoopTicked(AllUpdated(GridEnvironment_update(Self, choices), choices))
    /\ ticks' = ticks + 1
    /\ history' = Append(history, Call("tick", "-", ticks + 1))
    /\ op' = Operation("tick")
    /\ UNCHANGED <<others, callbacks, next_id, start, completions>>

\* A loop that ticks while a goal is being processed.
LoopTickAnytime == LoopTickFrom({"events", "awaiting", "applying"})

\* The loop reaches line 151 when the events of the frame are processed.
LoopTick == LoopTickFrom({"events"})

NextLoop ==
    KeyReturn \/ TranslationReturns \/ ApplyNext \/ ProcessGoalReturns \/ LoopTick

SpecLoop == InitLoop /\ [][NextLoop]_vars

\* The entries of history from the i-th to the j-th with operation name o.
Between(i, j, o) == {k \in i..j : history[k].op = o}

\* Whether a goal is being processed when the k-th entry is made: the last
\* process_goal before it has not returned.
Processing(k) ==
    \E i \in Between(1, k - 1, "process_goal") :
        /\ Between(i + 1, k - 1, "process_goal") = {}
        /\ Between(i + 1, k - 1, "return") = {}

\* C23: a tick never runs while a goal is processed, be it awaited or being
\* applied; a behavior is set only while a goal is processed; and when a tick
\* runs, every drone that was a target of a goal has been given its behavior
\* since.
C23_GoalsApplyBetweenTicks ==
    /\ \A k \in Between(1, Len(history), "tick") :
         /\ ~Processing(k)
         /\ \A j \in Between(1, k - 1, "target") :
              \E m \in Between(j + 1, k - 1, "set_behavior") :
                  history[m].id = history[j].id
    /\ \A m \in Between(1, Len(history), "set_behavior") : Processing(m)

\* A translated goal for both drones was awaited and applied, and a tick
\* followed.
C23_Witness ==
    /\ op.name = "tick"
    /\ \E i \in Between(1, Len(history), "process_goal") :
         /\ history[i].kind = "await"
         /\ Cardinality(Between(i + 1, Len(history), "set_behavior")) = 2
         /\ Between(i + 1, Len(history), "return") # {}
    /\ current_behavior.kind # "none"
    /\ fleet[1].current_behavior.kind # "none"

\* Whether no behavior was set since the last goal was received.
NothingApplied ==
    \E i \in Between(1, Len(history), "process_goal") :
        /\ Between(i + 1, Len(history), "process_goal") = {}
        /\ Between(i + 1, Len(history), "set_behavior") = {}

\* C24 as claimed: when process_goal returns and the goal was applied to no
\* drone, because the translation failed, replied with an error or with a
\* command that reaches no drone, the status of the result is "error".
C24_UnappliedGoalIsError ==
    (op.name = "return" /\ NothingApplied) => returned = "error"

\* C27 as claimed: no tick raises, whatever commands were accepted before it.
C27_TickNeverRaises ==
    op.name = "tick" => returned = "None"

---------------------------------------------------------------------------
(* command_processor.py and the legacy move command of llm_controller.py.  *)
(* A text is the sequence of what the two patterns can match in it: a      *)
(* drone word with its digits (n < 0: no digits follow), a direction=count *)
(* pair, or anything else.                                                 *)

DroneWord(n) == [word |-> "drone", n |-> n, direction |-> "-"]
Pair(direction, n) == [word |-> "pair", n |-> n, direction |-> direction]
OtherWord == [word |-> "other", n |-> 0, direction |-> "-"]

\* re.search(drone_pattern, text): the place of the first match, 0 for none
DroneMatch(text) ==
    LET found == {i \in DOMAIN text : text[i].word = "drone" /\ text[i].n >= 0} IN
    IF found = {} THEN 0 ELSE CHOOSE i \in found : \A j \in found : i <= j

\* re.findall(movement_pattern, text): the pairs of a known direction, in
\* the order of the text
MovementMatches(text) ==
    SelectSeq(text, LAMBDA t : t.word = "pair"
                                 /\ t.direction \in {"up", "down", "left", "right"})

\* for _ in range(steps): drone.add_action(MoveAction(direction)); the new
\* actions are numbered from id.
RECURSIVE AddMoves(_, _, _, _)
AddMoves(d, direction, steps, id) ==
    IF steps <= 0 THEN d
    ELSE AddMoves(Drone_add_action(d, [MoveAction(direction) EXCEPT !.id = id]),
                  direction, steps - 1, id + 1)

\* lines 52-55
RECURSIVE AddMatches(_, _, _)
AddMatches(d, matches, id) ==
    IF matches = <<>> THEN d
    ELSE AddMatches(AddMoves(d, Head(matches).direction, Head(matches).n, id),
                    Tail(matches), id + Head(matches).n)

\* A command that leaves the drone's current action in place.
CommandProcessor_applyKeepCurrent(d, matches, id) ==
    AddMatches(ClearQueueOnly(Drone_clear_behavior(d)), matches, id)

\* lines 47-55: the named drone is cleared and given the Moves
CommandProcessor_apply(d, matches, id) ==
    AddMatches(Drone_clear_actions(Drone_clear_behavior(d)), matches, id)

\* lines 28-45: whether the command is refused
CommandProcessor_refuses(text, drone_ids) ==
    \/ DroneMatch(text) = 0
    \/ \A i \in DOMAIN drone_ids : drone_ids[i] # text[DroneMatch(text)].n
    \/ MovementMatches(text) = <<>>

\* lines 416-426: the movements of a legacy move command.  A direction that
\* is not one of the four is passed over; range(steps) raises TypeError when
\* the movement has no steps.
RECURSIVE ProcessMovements(_, _, _)
ProcessMovements(d, movements, id) ==
    IF movements = <<>> THEN d
    ELSE LET movement == Head(movements) IN
         IF movement.direction \notin {"up", "down", "left", "right"}
         THEN ProcessMovements(d, Tail(movements), id)
         ELSE IF "steps" \notin DOMAIN movement
         THEN Raise(d, "TypeError")
         ELSE ProcessMovements(AddMoves(d, movement.direction, movement.steps, id),
                               Tail(movements), id + movement.steps)

\* lines 410-426: the drone that was found is cleared first
LLMController_execute_move_command(d, command_json, id) ==
    ProcessMovements(Drone_clear_actions(Drone_clear_behavior(d)),
                     Get(Get(command_json, "parameters", EmptyDict), "movements", <<>>),
                     id)

\* lines 379-385 and 396-408: whether the command is refused before a drone
\* is touched
LLMController_refuses(command_json, drone_ids) ==
    \/ Get(command_json, "command_type", "") # "move"
    \/ \A i \in DOMAIN drone_ids : drone_ids[i] # Get(command_json, "target", 0)

MaxCommandObjects == 4

CommandTexts ==
    {<<OtherWord>>,
     <<Pair("up", 1)>>,
     <<DroneWord(-1), Pair("up", 1)>>,
     <<DroneWord(3), Pair("up", 1)>>,
     <<DroneWord(1), OtherWord>>,
     <<DroneWord(1), Pair("forward", 2)>>,
     <<DroneWord(1), Pair("right", 2), Pair("up", 1)>>,
     <<Pair("down", 1), DroneWord(2), Pair("left", 1)>>,
     <<DroneWord(2), DroneWord(1), Pair("up", 0)>>}

JsonCommands ==
    {[command_type |-> "turn", target |-> 1,
      parameters |-> [movements |-> <<[direction |-> "up", steps |-> 1]>>]],
     [command_type |-> "move", target |-> 3,
      parameters |-> [movements |-> <<[direction |-> "up", steps |-> 1]>>]],
     [command_type |-> "move",
      parameters |-> [movements |-> <<[direction |-> "up", steps |-> 1]>>]],
     [command_type |-> "move", target |-> 1,
      parameters |-> [movements |-> <<[direction |-> "left", steps |-> 2],
                                      [direction |-> "forward", steps |-> 1],
                                      [direction |-> "down", steps |-> 1]>>]],
     [command_type |-> "move", target |-> 2,
      parameters |-> [movements |-> <<[direction |-> "up", steps |-> -1]>>]],
     [command_type |-> "move", target |-> 2, parameters |-> EmptyDict],
     [command_type |-> "move", target |-> 1,
      parameters |-> [movements |-> <<[direction |-> "right"]>>]],
     [command_type |-> "move", target |-> 2,
      parameters |-> [movements |-> <<[direction |-> "up", steps |-> 1],
                                      [direction |-> "right"]>>]]}

\* The other drone before the commands: idle, exploring, or with one Move
\* in progress and one queued.
InitialFleets ==
    {<<[position |-> Position(2, 2), current_action |-> c, action_queue |-> q,
        current_behavior |-> b, detector |-> NoDetector]>> :
       <<c, q, b>> \in
         {<<NoAction, <<>>, NoBehavior>>,
          <<NoAction, <<>>, [ExploreBehavior(-1) EXCEPT !.id = 91]>>,
          <<[MoveAction("up") EXCEPT !.id = 92],
            <<[MoveAction("left") EXCEPT !.id = 93]>>, NoBehavior>>}}

InitCommands ==
    /\ InitIdle
    /\ position = Position(1, 1)
    /\ start = position
    /\ entities = <<SelfId>>
    /\ others = <<>>

\* main.py creates the drones before the first command.
CreateFleet ==
    /\ fleet = <<>>
    /\ fleet' \in InitialFleets
    /\ op' = Operation("create")
    /\ UNCHANGED <<position, current_action, action_queue, current_behavior,
                   detector, entities, others, callbacks, next_id, events, calls,
                   history, ticks, start, completions, returned, loop>>

CommandSetBehavior ==
    /\ fleet # <<>>
    /\ next_id <= MaxCommandObjects
    /\ \E b \in {ExploreBehavior(-1), MoveToBehavior(Position(3, 1))} : SetBehavior(b)

CommandAddAction ==
    /\ fleet # <<>>
    /\ next_id <= MaxCommandObjects
    /\ \E a \in {MoveAction("down"), WaitAction(1)} : AddAction(a)

\* command_processor.process_command(text, environment); the text is kept
\* in history.
ProcessCommand ==
    /\ fleet # <<>>
    /\ next_id <= MaxCommandObjects
    /\ \E text \in CommandTexts :
         /\ history' = text
         /\ IF CommandProcessor_refuses(text, DroneIds)
            THEN /\ returned' = "False"
                 /\ events' = <<>>
                 /\ calls' = <<>>
                 /\ UNCHANGED <<position, current_action, action_queue,
                                current_behavior, detector, entities, fleet, next_id>>
            ELSE LET k == text[DroneMatch(text)].n
                     d == CommandProcessor_apply(DroneNo(k), MovementMatches(text),
                                                 next_id) IN
                 /\ DroneNoBecomes(k, d)
                 /\ next_id' = next_id + Len(Pending(d))
                 /\ returned' = "True"
    /\ op' = Operation("process_command")
    /\ UNCHANGED <<others, callbacks, ticks, start, completions, loop>>

\* llm_controller.execute_json_command(command_json, environment, drones)
ExecuteJsonCommand ==
    /\ fleet # <<>>
    /\ next_id <= MaxCommandObjects
    /\ \E command_json \in JsonCommands :
         IF LLMController_refuses(command_json, DroneIds)
         THEN /\ returned' = "False"
              /\ events' = <<>>
              /\ calls' = <<>>
              /\ UNCHANGED <<position, current_action, action_queue,
                             current_behavior, detector, entities, fleet, next_id>>
         ELSE LET k == command_json.target
                  d == LLMController_execute_move_command(DroneNo(k), command_json,
                                                          next_id) IN
              /\ DroneNoBecomes(k, d)
              /\ next_id' = next_id + Len(Pending(d))
              /\ returned' = Bool(d.raised = "-")
    /\ op' = Operation("execute_json_command")
    /\ UNCHANGED <<others, callbacks, history, ticks, start, completions, loop>>

NextCommands ==
    CreateFleet \/ CommandSetBehavior \/ CommandAddAction \/ ProcessCommand
        \/ ExecuteJsonCommand

SpecCommands == InitCommands /\ [][NextCommands]_vars

\* The behavior and the pending actions of every drone.
DroneStates ==
    <<current_behavior, current_action, action_queue,
      [k \in DOMAIN fleet |-> <<fleet[k].current_behavior, fleet[k].current_action,
                                fleet[k].action_queue>>]>>

\* C25 as claimed: a legacy move command that returns False leaves every
\* drone's behavior, current action and queue as they were.
C25_RejectedMoveChangesNothing ==
    [][(op'.name = "execute_json_command" /\ returned' = "False")
          => DroneStates' = DroneStates]_vars

\* The directions of the pairs of a text, each as often as its count says.
RECURSIVE ListedDirections(_)
ListedDirections(text) ==
    IF text = <<>> THEN <<>>
    ELSE LET t == Head(text) IN
         (IF t.word = "pair" /\ t.direction \in {"up", "down", "left", "right"}
          THEN [i \in 1..t.n |-> t.direction]
          ELSE <<>>) \o ListedDirections(Tail(text))

\* The pairs of a text with one of the four directions.
ListedPairs(text) ==
    SelectSeq(text, LAMBDA t : t.word = "pair"
                                 /\ t.direction \in {"up", "down", "left", "right"})

\* The drone ids a text names, in the order of the text.
NamedIds(text) ==
    LET named == SelectSeq(text, LAMBDA t : t.word = "drone" /\ t.n >= 0) IN
    [i \in DOMAIN named |-> named[i].n]

\* The directions of the Moves among the pending actions ca and q, and
\* whether all of them are fresh Moves.
PendingDirections(ca, q) ==
    LET pending == (IF ca.kind = "none" THEN <<>> ELSE <<ca>>) \o q IN
    [i \in DOMAIN pending |->
        IF pending[i].kind = "move" /\ ~pending[i].completed
        THEN pending[i].direction ELSE "-"]

\* C26: process_command returns False and changes no drone when the text
\* names no drone id, names an id that is not registered, or has no
\* direction=count pair; otherwise it returns True, the first drone named
\* has no behavior and exactly the listed Moves pending, in the order of the
\* text, and the other drone is as it was.
C26_ProcessCommand ==
    [][op'.name = "process_command" =>
          LET text == history'
              ids == NamedIds(text) IN
          IF \/ ids = <<>>
             \/ ListedPairs(text) = <<>>
             \/ (ids # <<>> /\ ids[1] \notin {1, 2})
          THEN returned' = "False" /\ DroneStates' = DroneStates
          ELSE /\ returned' = "True"
               /\ IF ids[1] = 1
                  THEN /\ current_behavior' = NoBehavior
                       /\ PendingDirections(current_action', action_queue')
                             = ListedDirections(text)
                       /\ fleet' = fleet
                  ELSE /\ fleet'[1].current_behavior = NoBehavior
                       /\ PendingDirections(fleet'[1].current_action,
                                            fleet'[1].action_queue)
                             = ListedDirections(text)
                       /\ <<current_behavior', current_action', action_queue'>>
                             = <<current_behavior, current_action, action_queue>>]_vars

\* An accepted command for the drone, which had a behavior or actions
\* before: three Moves are pending, right, right, up.
C26_Witness ==
    /\ op.name = "process_command"
    /\ returned = "True"
    /\ op.prior # -1 \/ op.pending > 0
    /\ current_behavior = NoBehavior
    /\ PendingDirections(current_action, action_queue) = <<"right", "right", "up">>

---------------------------------------------------------------------------
(* Handlers that look at the drone or change its queue while an action of  *)
(* a queue-driven drone executes: the drone stands in the corner of the    *)
(* grid, so that a Move left or up is blocked.                             *)

MaxHandlerObjects == 3
MaxHandlerTicks == 3

HandledTypes == {"drone_moved", "movement_blocked", "scan_completed"}
QueueHandlers == {ObserveAction, ReplaceQueue}
HandledActions == {MoveAction("right"), MoveAction("left"), ScanAction(1)}

InitHandlers ==
    /\ InitIdle
    /\ position = Position(0, 0)
    /\ start = position
    /\ entities = <<SelfId, 1>>
    /\ others = <<Entity(Position(1, 1), "target")>>

\* event_manager.on(type, handler), before the first update
SubscribeHandler ==
    /\ ticks = 0
    /\ callbacks = NoCallbacks
    /\ \E type \in HandledTypes, h \in QueueHandlers : callbacks' = on(type, h)
    /\ events' = <<>>
    /\ calls' = <<>>
    /\ op' = Operation("on")
    /\ UNCHANGED <<loop, fleet>>
    /\ returned' = "None"
    /\ UNCHANGED <<position, current_action, action_queue, current_behavior, detector,
                   entities, others, next_id, history, ticks, start, completions>>

AddHandledAction ==
    /\ ticks = 0
    /\ next_id <= MaxHandlerObjects
    /\ \E a \in HandledActions : AddAction(a)

UpdateHandled ==
    /\ current_action.kind # "none"
    /\ UpdateWithin(MaxHandlerTicks)

NextHandlers == SubscribeHandler \/ AddHandledAction \/ UpdateHandled

SpecHandlers == InitHandlers /\ [][NextHandlers]_vars

\* C28 as claimed: a handler of drone_moved, movement_blocked or
\* scan_completed that looks at the action being executed sees its completed
\* flag set.
C28_CompletedWhenHandlersRun ==
    \A i \in DOMAIN calls : calls[i].op = "observed" => calls[i].kind = "completed"

\* C29 as claimed: after an update during which a handler cleared the queue
\* and added two actions, exactly these two are pending, in that order.
C29_ReplacedQueueIsKept ==
    (op.name = "update" /\ \E i \in DOMAIN calls :
                               calls[i].op = "handler" /\ calls[i].id = ReplaceQueue)
        => [i \in DOMAIN Pending(Self) |-> Pending(Self)[i].id]
              = <<FirstReplacement, SecondReplacement>>

---------------------------------------------------------------------------
(* MoveTo with targets on and off the grid: a Move towards a target off    *)
(* the grid is blocked at the border and the path is planned again.        *)

MaxReachTicks == 5
MaxReachObjects == 2

ReachStarts == {Position(0, 0), Position(1, 1), Position(GridWidth - 1, 0)}

ReachTargets ==
    {Position(0, 0), Position(1, 1), Position(2, 1), Position(1, 3),
     Position(-1, 0), Position(1, -2), Position(GridWidth, 1)}

InitReach ==
    /\ InitIdle
    /\ position \in ReachStarts
    /\ start = position
    /\ entities = <<SelfId>>
    /\ others = <<>>

SetReach ==
    /\ IF current_behavior.kind = "none" THEN TRUE ELSE current_behavior.completed
    /\ next_id <= MaxReachObjects
    /\ \E t \in ReachTargets : SetBehavior(MoveToBehavior(t))

UpdateReach ==
    /\ current_behavior.kind # "none"
    /\ UpdateWithin(MaxReachTicks)

NextReach == SetReach \/ UpdateReach

SpecReach == InitReach /\ [][NextReach]_vars

\* C30: an update sets the completed flag of a MoveTo only when the drone is
\* at the target in both coordinates, before the update and after it.
C30_CompletedOnlyAtTarget ==
    [][(/\ op'.name = "update"
        /\ current_behavior.kind = "move_to"
        /\ ~current_behavior.completed
        /\ current_behavior'.completed)
          => /\ position = current_behavior.target_position
             /\ position' = position]_vars

\* A MoveTo completed away from where the drone started, and another was
\* blocked at the border before.
C30_Witness ==
    /\ op.name = "update"
    /\ current_behavior.kind = "move_to"
    /\ current_behavior.completed
    /\ returned = "True"
    /\ position # start
    /\ ticks >= 2

---------------------------------------------------------------------------
(* MoveTo as the code plans it, next to the specified policy: a second     *)
(* drone starts where the drone does, is given the same target, and plans  *)
(* again only when its path is exhausted or its Move was blocked.          *)

MaxRefineTicks == 6
MaxRefineObjects == 2

\* The specified policy, lines 66-71 otherwise: plan again when the drone is
\* not at the target and the path is exhausted or the Move left it in place.
MoveToBehavior_stepLazy(b, d) ==
    IF b.current_action.kind # "none"
    THEN LET r == execute(b.current_action, d) IN
         IF r.done
         THEN IF ~AtTarget(b, r.drone)
                    /\ (b.path = <<>> \/ r.drone.position = d.position)
              THEN Updated(MoveToBehavior_plan_path([b EXCEPT !.current_action = NoAction],
                                                    r.drone),
                           r.drone, FALSE)
              ELSE Updated([b EXCEPT !.current_action = NoAction], r.drone, FALSE)
         ELSE Updated([b EXCEPT !.current_action = r.action], r.drone, FALSE)
    ELSE Updated(b, d, FALSE)

MoveToBehavior_updateLazy(b, d) ==
    IF b.completed THEN Updated(b, d, TRUE)
    ELSE IF AtTarget(b, d) THEN Updated([b EXCEPT !.completed = TRUE], d, TRUE)
    ELSE MoveToBehavior_stepLazy(MoveToBehavior_next(b), d)

\* The second drone with the events of its last update.
Follower(d, evs) ==
    [position |-> d.position, current_action |-> d.current_action,
     action_queue |-> d.action_queue, current_behavior |-> d.current_behavior,
     detector |-> d.detector, events |-> evs]

\* The second drone after the update u of its behavior.
Followed(u) ==
    <<Follower([u.drone EXCEPT !.current_behavior = u.behavior], u.drone.events)>>

InitRefine ==
    /\ InitDrone(NoDetector)
    /\ position \in ReachStarts
    /\ start = position
    /\ entities = <<SelfId>>
    /\ others = <<>>

\* The second drone is created where the drone is.
CreateFollower ==
    /\ fleet = <<>>
    /\ fleet' = <<Follower(Self, <<>>)>>
    /\ op' = Operation("create")
    /\ UNCHANGED <<position, current_action, action_queue, current_behavior,
                   detector, entities, others, callbacks, next_id, events, calls,
                   history, ticks, start, completions, returned, loop>>

\* Both drones are given a MoveTo to the same target.
SetBoth ==
    /\ fleet # <<>>
    /\ IF current_behavior.kind = "none" THEN TRUE ELSE current_behavior.completed
    /\ next_id <= MaxRefineObjects
    /\ \E t \in ReachTargets :
         /\ Becomes(Drone_set_behavior(Self, [MoveToBehavior(t) EXCEPT !.id = next_id]))
         /\ fleet' = <<Follower(Drone_set_behavior(AsDrone(fleet[1], Self),
                                                   [MoveToBehavior(t) EXCEPT !.id = next_id]),
                                <<>>)>>
    /\ next_id' = next_id + 1
    /\ op' = Operation("set_behavior")
    /\ history' = <<>>
    /\ ticks' = 0
    /\ start' = position
    /\ completions' = 0
    /\ returned' = "None"
    /\ UNCHANGED <<others, callbacks, loop>>

\* One update of each drone.
UpdateBoth ==
    /\ fleet # <<>>
    /\ current_behavior.kind # "none"
    /\ ticks < MaxRefineTicks
    /\ Becomes(Drone_update(Self, "up"))
    /\ fleet' = Followed(MoveToBehavior_updateLazy(fleet[1].current_behavior,
                                                   AsDrone(fleet[1], Self)))
    /\ ticks' = ticks + 1
    /\ op' = Operation("update")
    /\ returned' = Returned(Self, "up")
    /\ UNCHANGED <<others, callbacks, next_id, history, start, completions, loop>>

NextRefine == CreateFollower \/ SetBoth \/ UpdateBoth

SpecRefine == InitRefine /\ [][NextRefine]_vars

\* C31: the drone that plans again after every Move and the drone that
\* plans again only when its path is exhausted or its Move was blocked are
\* at the same position after every update, fired the same events in it, and
\* their MoveTo is completed at the same time.
C31_ReplanPoliciesAgree ==
    fleet # <<>> =>
        /\ fleet[1].position = position
        /\ op.name = "update" =>
             /\ fleet[1].events = events
             /\ fleet[1].current_behavior.completed = current_behavior.completed

\* Both drones went two cells and were then blocked at the border.
C31_Witness ==
    /\ op.name = "update"
    /\ fleet # <<>>
    /\ ticks >= 3
    /\ Manhattan(position, start) >= 1
    /\ \E i \in DOMAIN events : events[i].type = "movement_blocked"
    /\ fleet[1].events = events

---------------------------------------------------------------------------
(* main.py: a drone with a detector and handle_target_detected subscribed, *)
(* and a target two cells to its right.  The drone is idle, explores, or   *)
(* has actions queued.                                                     *)

MaxDetectedTicks == 3
MaxDetectedObjects == 2

\* Four of the ways the handler's random choices can fall.
TargetHandlers == {HandleTargetDetected + n : n \in {0, 27, 45, 63}}

InitDetected ==
    /\ InitDrone(Detector(1))
    /\ position = Position(1, 1)
    /\ start = position
    /\ entities = <<SelfId, 1>>
    /\ others = <<Entity(Position(3, 1), "target")>>

\* line 76: @event_manager.register("target_detected")
RegisterHandler ==
    /\ ticks = 0
    /\ callbacks = NoCallbacks
    /\ \E h \in TargetHandlers : callbacks' = on("target_detected", h)
    /\ events' = <<>>
    /\ calls' = <<>>
    /\ op' = Operation("on")
    /\ UNCHANGED <<loop, fleet>>
    /\ returned' = "None"
    /\ UNCHANGED <<position, current_action, action_queue, current_behavior, detector,
                   entities, others, next_id, history, ticks, start, completions>>

SetDetectedBehavior ==
    /\ callbacks # NoCallbacks
    /\ ticks = 0
    /\ next_id <= MaxDetectedObjects
    /\ \E b \in {ExploreBehavior(-1), MoveToBehavior(Position(3, 1))} : SetBehavior(b)

AddDetectedAction ==
    /\ callbacks # NoCallbacks
    /\ ticks = 0
    /\ current_behavior.kind = "none"
    /\ next_id <= MaxDetectedObjects
    /\ \E a \in {MoveAction("right"), WaitAction(1)} : AddAction(a)

UpdateDetected ==
    /\ callbacks # NoCallbacks
    /\ UpdateWithin(MaxDetectedTicks)

NextDetected == RegisterHandler \/ SetDetectedBehavior \/ AddDetectedAction \/ UpdateDetected

SpecDetected == InitDetected /\ [][NextDetected]_vars

\* C32 as claimed: after the update in which target_detected fired, the
\* drone has no behavior yet and the Wait of 5 ticks and the three Moves of
\* the handler are pending, in that order; the Explore comes after them.
C32_PauseThenMoveAway ==
    (op.name = "update" /\ \E i \in DOMAIN events : events[i].type = "target_detected")
        => /\ current_behavior.kind = "none"
           /\ \E k \in DOMAIN Pending(Self) :
                 /\ Pending(Self)[k].id = PauseId
                 /\ Len(Pending(Self)) = k + 3
                 /\ \A j \in 1..3 : Pending(Self)[k + j].id = AwayId + j - 1

---------------------------------------------------------------------------
(* drone.py and behavior.py: a drone in a corner of the grid is driven by  *)
(* any mix of queued actions and behaviors: calls of add_action,           *)
(* set_behavior, clear_behavior and update in any order.                   *)

MaxMixTicks == 3
MaxMixObjects == 3

MixStarts == {Position(0, 0), Position(GridWidth - 1, GridHeight - 1)}

\* From either corner one of the two moves is blocked.
MixActions == {MoveAction("left"), MoveAction("down"), WaitAction(1), ScanAction(1)}

MixBehaviors ==
    {MoveToBehavior(Position(-1, 1)), MoveToBehavior(Position(GridWidth - 2, GridHeight)),
     ExploreBehavior(-1), ExploreBehavior(1),
     PatrolBehavior(<<Position(0, 1), Position(GridWidth - 1, GridHeight - 2)>>, 1),
     SearchBehavior(1, 1, 1), SearchBehavior(0, 1, 1)}

InitMix ==
    /\ InitIdle
    /\ position \in MixStarts
    /\ start = position
    /\ entities = <<SelfId>>
    /\ others = <<>>

SetMixBehavior ==
    /\ next_id <= MaxMixObjects
    /\ \E b \in MixBehaviors : SetBehavior(b)

AddMixAction ==
    /\ next_id <= MaxMixObjects
    /\ \E a \in MixActions : AddAction(a)

ClearMixBehavior == current_behavior.kind # "none" /\ ClearBehavior

UpdateMix == UpdateWithin(MaxMixTicks)

NextMix == SetMixBehavior \/ AddMixAction \/ ClearMixBehavior \/ UpdateMix

SpecMix == InitMix /\ [][NextMix]_vars

\* C33: a drone that starts on the grid is on the grid after every call,
\* whatever actions are queued and whatever behavior is set (a MoveTo to a
\* target off the grid included), and one Drone.update moves it by at most
\* one cell.
C33_OnGridOneCellPerUpdate ==
    /\ [](/\ 0 <= position.x /\ position.x < GridWidth
          /\ 0 <= position.y /\ position.y < GridHeight)
    /\ [][op'.name = "update" => Manhattan(position', position) <= 1]_vars

\* Updates at the edge of the grid: a move was blocked in this update, and
\* the drone has left its corner.
C33_Witness ==
    /\ op.name = "update"
    /\ ticks >= 2
    /\ position \notin MixStarts
    /\ \E i \in DOMAIN events : events[i].type = "movement_blocked"

\* C34: Drone.update on a drone with a behavior, completed or not, leaves
\* the same behavior installed, and leaves the current action and the queue
\* as they were: no action added with add_action is executed while a
\* behavior is installed.
C34_BehaviorStaysQueueWaits ==
    [][(op'.name = "update" /\ current_behavior.kind # "none")
          => /\ current_behavior'.kind = current_behavior.kind
             /\ current_behavior'.id = current_behavior.id
             /\ current_action' = current_action
             /\ action_queue' = action_queue
             /\ \A i \in DOMAIN calls' :
                   calls'[i].op = "execute" => calls'[i].id \notin PendingIds]_vars

\* An update of a drone whose behavior had completed an update before, with
\* two actions waiting.
C34_Witness ==
    /\ op.name = "update"
    /\ ticks >= 3
    /\ current_behavior.kind # "none"
    /\ current_behavior.completed
    /\ current_action.kind # "none"
    /\ action_queue # <<>>

\* The last cell of the grid on the x-then-y path from s to t: the column
\* of t and the row of the grid nearest to t when the column is on the
\* grid, and else the column of the grid nearest to t in the row of s.
Edge(s, t) ==
    IF 0 <= t.x /\ t.x < GridWidth
    THEN Position(t.x, Max(0, Min(t.y, GridHeight - 1)))
    ELSE Position(Max(0, Min(t.x, GridWidth - 1)), s.y)

Blocked == {i \in DOMAIN events : events[i].type = "movement_blocked"}

\* C35: a MoveTo to a target off the grid never completes.  After every
\* update the drone is where the x-then-y rule has taken it, one cell per
\* update and no further than the last cell of the grid on that path; once
\* it is there every update executes one Move, which is blocked (one
\* movement_blocked event, the position unchanged), and plans the path
\* again.
C35_OffGridMoveToNeverCompletes ==
    (/\ op.name = "update"
     /\ current_behavior.kind = "move_to"
     /\ ~(/\ 0 <= current_behavior.target_position.x
          /\ current_behavior.target_position.x < GridWidth
          /\ 0 <= current_behavior.target_position.y
          /\ current_behavior.target_position.y < GridHeight))
        => /\ ~current_behavior.completed
           /\ position = Along(start, Edge(start, current_behavior.target_position), ticks)
           /\ current_behavior.path # <<>>
           /\ current_behavior.path = PlanFrom(position, current_behavior.target_position)
           /\ current_behavior.current_action.kind = "none"
           /\ Len(Executes(calls)) = 1
           /\ IF ticks > Manhattan(start, Edge(start, current_behavior.target_position))
              THEN Cardinality(Blocked) = 1 /\ Len(events) = 1
              ELSE Blocked = {}

\* The drone went to the edge of the grid and was blocked there twice; the
\* target is two cells from where it stands.
C35_Witness ==
    /\ op.name = "update"
    /\ current_behavior.kind = "move_to"
    /\ position # start
    /\ position = Edge(start, current_behavior.target_position)
    /\ Manhattan(position, current_behavior.target_position) = 2
    /\ ticks >= Manhattan(start, position) + 2
    /\ Blocked # {}

---------------------------------------------------------------------------
(* behavior.py: a Search of any cadence, zero and negative included, with  *)
(* or without a step limit, on a drone in the corner of the grid, where    *)
(* some of its Moves are blocked.                                          *)

MaxCadenceTicks == 5

Cadences == -1..MaxCadence

CadenceLimits == {-1, 1, 2}

InitCadence ==
    /\ InitIdle
    /\ position = Position(0, 0)
    /\ start = position
    /\ entities = <<SelfId>>
    /\ others = <<>>

SetCadence ==
    /\ current_behavior.kind = "none"
    /\ \E c \in Cadences, n \in CadenceLimits : SetBehavior(SearchBehavior(c, 1, n))

UpdateCadence == current_behavior.kind # "none" /\ UpdateWithin(MaxCadenceTicks)

NextCadence == SetCadence \/ UpdateCadence

SpecCadence == InitCadence /\ [][NextCadence]_vars

\* C36: the step_count of a Search is between 0 and its cadence (0 for a
\* cadence below 0), and its total_steps is the number of Moves it has
\* executed.  A Search whose cadence is 0 or less has executed one Scan on
\* every update and nothing else, has not moved the drone, has total_steps
\* 0 and is not completed, whatever its step limit.
C36_SearchCounters ==
    current_behavior.kind = "search" =>
        /\ 0 <= current_behavior.step_count
        /\ current_behavior.step_count <= Max(current_behavior.steps_between_scans, 0)
        /\ current_behavior.total_steps = Len(MoveCalls)
        /\ current_behavior.steps_between_scans <= 0 =>
              /\ Len(history) = ticks
              /\ \A i \in DOMAIN history : history[i].kind = "scan"
              /\ position = start
              /\ current_behavior.total_steps = 0
              /\ ~current_behavior.completed

\* Three updates of a Search with a cadence of 0 or less and a step limit.
C36_Witness ==
    /\ op.name = "update"
    /\ current_behavior.kind = "search"
    /\ current_behavior.steps_between_scans <= 0
    /\ current_behavior.max_steps > 0
    /\ ticks >= 3

====
